---- MODULE Spec2Model ----
(***************************************************************************)
(* Frame ingestion and live broadcast of the TESA drone backend:           *)
(*   - the MQTT ingest handler            (src/mqtt/ingest.ts)             *)
(*   - the frame schema                   (src/schemas/frame.ts)           *)
(*   - the Pi camera session of /ws       (src/server.ts, role=pi)         *)
(*   - the stand-alone WebSocket server   (ws server with viewerClients)   *)
(*   - the reprocess route                (src/routes/admin.ts)            *)
(* Every async handler is a little process: one action per stretch of code *)
(* between two awaits.  Handlers of different messages interleave at their *)
(* awaits, as the event emitters never wait for the promise a listener     *)
(* returns.                                                                *)
(***************************************************************************)
EXTENDS Integers, Sequences, FiniteSets, TLC

VARIABLES
    CAMERA_TOKEN,     \* ingest.ts: process.env.CAMERA_TOKEN || ""
    bus,              \* one record per delivered bus message: its handler
    rawLog,           \* Store: the raw message records, in creation order
    frames,           \* Store: the persisted frames, in creation order
    broadcasts,       \* the payloads broadcast() was called with, in call order
    viewerClients,    \* hub: the membership set
    readyState,       \* per viewer socket: "NONE", "OPEN", "CLOSING", "CLOSED"
    received,         \* per viewer socket: the messages sent to it, in order
    failedSends,      \* <<viewer, broadcast number>> of every send() that threw
    pi,               \* per device connection: the session
    piHandlers,       \* one record per device message: its handler
    sending,          \* the broadcast loop that is running, if any
    admin             \* one record per reprocess request: its handler

vars == <<CAMERA_TOKEN, bus, rawLog, frames, broadcasts, viewerClients,
          readyState, received, failedSends, pi, piHandlers, sending, admin>>

busVars == <<CAMERA_TOKEN, bus, rawLog>>
hubVars == <<viewerClients, readyState, received, failedSends>>
piVars  == <<pi, piHandlers>>
opVars  == <<sending, admin>>

----------------------------------------------------------------------------
(* Bounds of the model.                                                    *)

MaxBusMsgs == 2       \* bus messages delivered
MaxPiMsgs == 4        \* messages a device sends on one connection
MaxSessionMsgs == 3   \* messages of all devices, when two sessions run
MaxBroadcasts == 2    \* broadcast() calls made directly on the hub
MaxLoopBroadcasts == 1   \* broadcast() calls followed turn by turn
MaxLoggedMsgs == 1    \* bus messages delivered while reprocess requests are served
MaxReprocess == 2     \* reprocess requests
MaxDupOps == 3        \* bus messages and reprocess requests of one payload, together
MaxRoleMsgs == 2      \* messages of the sockets whose role is drawn at connection
MaxCloseMsgs == 2     \* device messages, when the connection closes on a frame in flight
MaxWriterOps == 3     \* bus messages, device messages and reprocess requests, together
MaxCredMsgs == 3      \* bus and device messages on the paths that take a credential
MaxByteMsgs == 3      \* device messages, when their first bytes are varied
MaxEventMsgs == 3     \* bus and device messages, when both feed the Hub

Viewers == {"v1", "v2", "v3"}
Devices == {"d1", "d2"}
OneDevice == {"d1"}
\* every socket the servers accept
Connections == Viewers \cup Devices

----------------------------------------------------------------------------
(* JSON values.  A value is absent, a string or a number; strings that     *)
(* stand for numbers are sequences of one-character strings so that        *)
(* parseFloat / parseInt can be computed on them.                          *)

Absent == [t |-> "absent"]
Str(s) == [t |-> "str", s |-> s]
Num(n) == [t |-> "num", n |-> n]
NaN == [t |-> "nan"]

Digits == {"0", "1", "2", "3", "4", "5", "6", "7", "8", "9"}

DigitVal(c) ==
    CASE c = "0" -> 0 [] c = "1" -> 1 [] c = "2" -> 2 [] c = "3" -> 3
      [] c = "4" -> 4 [] c = "5" -> 5 [] c = "6" -> 6 [] c = "7" -> 7
      [] c = "8" -> 8 [] c = "9" -> 9

\* The longest prefix of cs that consists of digits.
RECURSIVE DigitPrefix(_)
DigitPrefix(cs) ==
    IF cs = <<>> \/ Head(cs) \notin Digits THEN <<>>
    ELSE <<Head(cs)>> \o DigitPrefix(Tail(cs))

RECURSIVE DigitsValue(_, _)
DigitsValue(cs, acc) ==
    IF cs = <<>> THEN acc ELSE DigitsValue(Tail(cs), 10 * acc + DigitVal(Head(cs)))

\* parseFloat(v) on a string of the model's alphabet (digits and letters):
\* the number its leading digits spell, NaN when it has none.
parseFloat(cs) ==
    IF DigitPrefix(cs) = <<>> THEN NaN ELSE Num(DigitsValue(DigitPrefix(cs), 0))

\* parseInt(String(v), 10): the same on this alphabet.
parseInt(cs) == parseFloat(cs)

\* z.preprocess(v => typeof v === "string" ? parseFloat(v) : v, z.number())
\* and the int variant; both give <<ok, number>>.
num(v) ==
    LET w == IF v.t = "str" THEN parseFloat(v.s) ELSE v
    IN  IF w.t = "num" THEN <<TRUE, w.n>> ELSE <<FALSE, 0>>

int(v) ==
    LET w == IF v.t = "str" THEN parseInt(v.s) ELSE v
    IN  IF w.t = "num" THEN <<TRUE, w.n>> ELSE <<FALSE, 0>>

\* new Date(s) of z.coerce.date() and Date.prototype.toISOString(), on the
\* timestamps of the model: the instant is a number, NaN for an invalid date.
DateOf(v) ==
    IF v.t = "num" THEN v
    ELSE IF v.t # "str" THEN NaN
    ELSE IF v.s \in {"2024-01-01T00:00:00Z", "2024-01-01T00:00:00.000Z"} THEN Num(1704067200)
    ELSE IF v.s \in {"2024-01-01T00:00:01Z", "2024-01-01T00:00:01.000Z"} THEN Num(1704067201)
    ELSE NaN

toISOString(ms) ==
    IF ms = 1704067200 THEN "2024-01-01T00:00:00.000Z"
    ELSE IF ms = 1704067201 THEN "2024-01-01T00:00:01.000Z"
    ELSE "other"

----------------------------------------------------------------------------
(* The frame schema.                                                       *)

\* token_id of a payload: absent, a string token, or an object that may
\* hold camera_info (info is <<>> or <<camera_info>>).
NoTokenId == [kind |-> "absent", s |-> "", info |-> <<>>]
TokenString(s) == [kind |-> "string", s |-> s, info |-> <<>>]
TokenObject(info) == [kind |-> "object", s |-> "", info |-> info]

CameraInfoOk(ci) ==
    /\ ci.name.t = "str" /\ ci.sort.t = "str"
    /\ ci.location.t = "str" /\ ci.institute.t = "str"

ObjectOk(o) ==
    /\ o.obj_id.t = "str" /\ o.obj_id.s # ""
    /\ o.type.t \in {"str", "absent"}
    /\ num(o.lat)[1] /\ num(o.lng)[1] /\ num(o.alt)[1] /\ num(o.speed_kt)[1]

\* frameSchema.parse(doc) succeeds
frameSchemaOk(doc) ==
    /\ doc.fram_id.t = "str"
    /\ doc.cam_id.t = "str" /\ doc.cam_id.s # ""
    /\ doc.token_id.kind = "object"
    /\ doc.token_id.info # <<>>
    /\ CameraInfoOk(doc.token_id.info[1])
    /\ DateOf(doc.timestamp).t = "num"
    /\ doc.image_info # <<>>
    /\ int(doc.image_info[1].width)[1] /\ int(doc.image_info[1].height)[1]
    /\ doc.objects # <<>>
    /\ \A i \in DOMAIN doc.objects[1] : ObjectOk(doc.objects[1][i])

\* ParseObject with lat and lng taken from each other's field
ParseObjectSwapped(o) ==
    [obj_id |-> o.obj_id.s, type |-> o.type,
     lat |-> num(o.lng)[2], lng |-> num(o.lat)[2],
     alt |-> num(o.alt)[2], speed_kt |-> num(o.speed_kt)[2]]

ParseObject(o) ==
    [obj_id |-> o.obj_id.s, type |-> o.type,
     lat |-> num(o.lat)[2], lng |-> num(o.lng)[2],
     alt |-> num(o.alt)[2], speed_kt |-> num(o.speed_kt)[2]]

\* the value frameSchema.parse(doc) returns: known keys only, coerced
frameSchemaParse(doc) ==
    [fram_id |-> doc.fram_id.s,
     cam_id |-> doc.cam_id.s,
     token_id |-> [camera_info |-> doc.token_id.info[1]],
     timestamp |-> DateOf(doc.timestamp).n,
     image_info |-> [width |-> int(doc.image_info[1].width)[2],
                     height |-> int(doc.image_info[1].height)[2]],
     objects |-> [i \in DOMAIN doc.objects[1] |-> ParseObject(doc.objects[1][i])]]

----------------------------------------------------------------------------
(* The payloads the bus and the devices send in the model.                 *)

EmbeddedInfo == [name |-> Str("Cam A"), sort |-> Str("outdoor"),
                 location |-> Str("Roof"), institute |-> Str("Uni")]

\* what the metadata provider answers, after mapCameraInfo's mapping
ApiInfo == [name |-> Str("Camera 1"), sort |-> Str("indoor"),
            location |-> Str("Building A"), institute |-> Str("CRMA")]

Obj(id, lat, speed) ==
    [obj_id |-> Str(id), type |-> Absent, lat |-> lat, lng |-> Num(100),
     alt |-> Str(<<"5", "0">>), speed_kt |-> speed]

ObjO1 == Obj("O1", Str(<<"1", "3">>), Str(<<"1", "5">>))
ObjO2 == Obj("O2", Num(14), Num(7))
ObjBad == Obj("O3", Str(<<"x", "1">>), Num(7))
\* numeric fields that are strings: digits and then a letter, letters only
ObjLatTrailing == Obj("O4", Str(<<"1", "2", "a">>), Num(7))
ObjSpeedTrailing == Obj("O5", Num(14), Str(<<"7", "k", "t">>))
ObjLatWord == Obj("O6", Str(<<"a", "b">>), Num(7))
ObjSpeedAbsent == Obj("O7", Num(14), Absent)

Doc(fid, tok, img, objs) ==
    [fram_id |-> fid, cam_id |-> Str("CAM1"), token_id |-> tok,
     timestamp |-> Str("2024-01-01T00:00:00Z"), image_info |-> img, objects |-> objs]

Image640 == <<[width |-> Num(640), height |-> Str(<<"4", "8", "0">>)]>>

\* the result of JSON.parse: a document, or a SyntaxError
Text(doc) == [wellFormed |-> TRUE, doc |-> doc]
Garbage == [wellFormed |-> FALSE, doc |-> Doc(Absent, NoTokenId, <<>>, <<>>)]

\* The texts the bus delivers in the model, and JSON.parse on them: the
\* parsed document, or no document for a text that is not JSON.
BusTexts == {"embedded", "token", "badObject", "noFramId", "notJson"}

JSONparse(text) ==
    CASE text = "embedded" ->
           Text(Doc(Str("1"), TokenObject(<<EmbeddedInfo>>), Image640, <<<<ObjO1, ObjO2>>>>))
      [] text = "token" ->
           Text(Doc(Str("2"), TokenString("tok"), Image640, <<<<ObjO2, ObjO1>>>>))
      [] text = "badObject" ->
           Text(Doc(Str("3"), NoTokenId, Image640, <<<<ObjBad>>>>))
      [] text = "noFramId" ->
           Text(Doc(Absent, TokenString("tok"), Image640, <<<<ObjO1>>>>))
      [] text = "latTrailing" ->
           Text(Doc(Str("4"), TokenObject(<<EmbeddedInfo>>), Image640,
                    <<<<ObjO1, ObjLatTrailing>>>>))
      [] text = "speedTrailing" ->
           Text(Doc(Str("5"), TokenString("tok"), Image640, <<<<ObjSpeedTrailing>>>>))
      [] text = "latWord" ->
           Text(Doc(Str("6"), TokenObject(<<EmbeddedInfo>>), Image640,
                    <<<<ObjO2, ObjLatWord>>>>))
      [] text = "speedAbsent" ->
           Text(Doc(Str("7"), TokenObject(<<EmbeddedInfo>>), Image640,
                    <<<<ObjSpeedAbsent>>>>))
      [] OTHER -> Garbage

----------------------------------------------------------------------------
(* Store.                                                                  *)

\* services/raw.ts is not part of the sources at hand; saveRaw follows the
\* Store of the specification: persistRaw creates the record with outcome
\* pending, updateRawOutcome sets the outcome of the message's record.
\* msg names the message a record belongs to and updates counts the outcome
\* writes a record has had; neither is a column of the table.
saveRawCreate(log, m, text) ==
    Append(log, [msg |-> m, topic |-> "drones/frames", payload |-> text,
                 outcome |-> "pending", error |-> "", updates |-> 0])

saveRawOutcome(log, m, parseOk, error) ==
    [i \in DOMAIN log |->
        IF log[i].msg = m
        THEN [log[i] EXCEPT !.outcome = IF parseOk THEN "ok" ELSE "failed",
                            !.error = error, !.updates = @ + 1]
        ELSE log[i]]

\* the arguments ingest.ts and admin.ts build for saveFrame
SaveFrameParams(frame) ==
    [framId |-> frame.fram_id, camId |-> frame.cam_id,
     cameraName |-> frame.token_id.camera_info.name,
     cameraSort |-> frame.token_id.camera_info.sort,
     cameraLocation |-> frame.token_id.camera_info.location,
     cameraInstitute |-> frame.token_id.camera_info.institute,
     timestamp |-> frame.timestamp,
     imageWidth |-> frame.image_info.width,
     imageHeight |-> frame.image_info.height,
     objects |-> [i \in DOMAIN frame.objects |->
                    [objId |-> frame.objects[i].obj_id, type |-> frame.objects[i].type,
                     lat |-> frame.objects[i].lat, lng |-> frame.objects[i].lng,
                     alt |-> frame.objects[i].alt, speedKt |-> frame.objects[i].speed_kt]]]

\* saveFrame: prisma.frame.create; the new row gets the next id.  src tells
\* which handler made the call (not a column of the table).
\* saveFrame for a Store that keeps one row for each distinct frame
saveFrameDedup(store, params, src) ==
    IF \E j \in DOMAIN store : store[j].data = params
    THEN store
    ELSE Append(store, [id |-> Len(store) + 1, data |-> params, src |-> src])

saveFrame(store, params, src) ==
    Append(store, [id |-> Len(store) + 1, data |-> params, src |-> src])

----------------------------------------------------------------------------
(* The hub.                                                                *)

OpenMembers == {w \in viewerClients : readyState[w] = "OPEN"}

\* broadcast(payload): the payload is serialized once and sent to every
\* member whose socket is OPEN; a send that throws is caught and logged.
\* F is the set of members whose send throws.  src (the caller), members
\* (the membership set at the call) and open (the members that were OPEN at
\* the call) are kept with the payload for the properties; they are not
\* part of the message.
broadcast(payload, src, F) ==
    LET msg == [payload |-> payload, src |-> src, members |-> viewerClients,
                open |-> OpenMembers]
        n == Len(broadcasts) + 1
    IN  /\ broadcasts' = Append(broadcasts, msg)
        /\ received' = [w \in Connections |->
                          IF w \in OpenMembers \ F THEN Append(received[w], n)
                          ELSE received[w]]
        /\ failedSends' = failedSends \cup {<<w, n>> : w \in F}
        /\ UNCHANGED <<viewerClients, readyState>>

----------------------------------------------------------------------------
(* The bus ingest handler, mqttClient.on("message", async ...).            *)
(* pc of a handler: the await it is suspended at ("saveRaw1", "enrich",    *)
(* "saveFrame", "saveRawOk", "saveRawFail"), "done" once its promise has   *)
(* resolved, "rejected" once its promise has rejected.                     *)

Truthy(v) == (v.t = "str" /\ v.s # "") \/ (v.t = "num" /\ v.n # 0)

\* typeof token_id === "string" ? token_id : CAMERA_TOKEN
TokenFor(json, envToken) ==
    IF json.token_id.kind = "string" THEN json.token_id.s ELSE envToken

\* json.token_id?.camera_info is truthy
HasEmbeddedInfo(json) == json.token_id.kind = "object" /\ json.token_id.info # <<>>

\* Enriched for a mapping that copies the token it was called with into
\* the camera_info it returns
EnrichedEchoesToken(json) ==
    [json EXCEPT !.token_id = TokenObject(<<[ApiInfo EXCEPT !.name.s = json.token_id.s]>>)]

\* mapCameraInfo's result: the payload without its token_id, with the
\* provider's camera_info under token_id
Enriched(json) == [json EXCEPT !.token_id = TokenObject(<<ApiInfo>>)]

\* BusEvent with an image field next to the frame's fields
BusEventWithImage(frame) ==
    [fram_id |-> frame.fram_id, cam_id |-> frame.cam_id, token_id |-> frame.token_id,
     timestamp |-> toISOString(frame.timestamp), image_info |-> frame.image_info,
     objects |-> frame.objects, image_jpeg_base64 |-> [base64 |-> 0]]

\* the event ingest.ts broadcasts for a frame
BusEvent(frame) ==
    [fram_id |-> frame.fram_id, cam_id |-> frame.cam_id, token_id |-> frame.token_id,
     timestamp |-> toISOString(frame.timestamp), image_info |-> frame.image_info,
     objects |-> frame.objects]

BusSrc(m) == [path |-> "bus", id |-> m]

InFlight(h) == h.pc \notin {"done", "rejected"}

\* throw inside the try block: control goes to the catch, which calls
\* saveRaw(topic, text, { parseOk: false, error }) and awaits it
Catch(h, message, steps) ==
    [h EXCEPT !.pc = "saveRawFail", !.err = message, !.trace = h.trace \o steps]

\* frameSchema.parse(enrichedPayload), then the call of saveFrame
ValidateStep(h, enrichedPayload, steps) ==
    IF frameSchemaOk(enrichedPayload)
    THEN [h EXCEPT !.pc = "saveFrame", !.frame = <<frameSchemaParse(enrichedPayload)>>,
                   !.trace = h.trace \o steps \o <<"validated">>]
    ELSE Catch(h, "ZodError", steps)

\* lines 26-71, run once the first saveRaw has returned: JSON.parse, the id
\* check, the choice of the token, up to the next await
ParseStep(h, envToken) ==
    LET json == JSONparse(h.text).doc IN
    IF ~JSONparse(h.text).wellFormed THEN Catch(h, "SyntaxError", <<"parse">>)
    ELSE IF ~Truthy(json.fram_id) \/ ~Truthy(json.cam_id)
    THEN Catch(h, "fram_id and cam_id are required in frame message", <<"parse">>)
    ELSE IF TokenFor(json, envToken) # ""
    THEN [h EXCEPT !.pc = "enrich", !.trace = h.trace \o <<"parse", "enrichCall">>]
    ELSE IF HasEmbeddedInfo(json)
    THEN ValidateStep(h, json, <<"parse">>)
    ELSE Catch(h, "No camera token available and camera_info not in payload",
               <<"parse">>)

\* BusDeliver with JSON.parse moved before the first saveRaw: a text that
\* does not parse goes to the catch with no raw record written
BusDeliverParseFirst(text) ==
    /\ Len(bus) < MaxBusMsgs
    /\ bus' = Append(bus,
                IF JSONparse(text).wellFormed
                THEN [text |-> text, pc |-> "saveRaw1", frame |-> <<>>,
                      err |-> "", trace |-> <<"received">>]
                ELSE [text |-> text, pc |-> "saveRawFail", frame |-> <<>>,
                      err |-> "SyntaxError", trace |-> <<"received", "parse">>])
    /\ UNCHANGED <<opVars, CAMERA_TOKEN, rawLog, frames, broadcasts, hubVars, piVars>>

\* a message arrives: the handler runs up to its first await, saveRaw(topic, text)
BusDeliver(text) ==
    /\ Len(bus) < MaxBusMsgs
    /\ bus' = Append(bus, [text |-> text, pc |-> "saveRaw1", frame |-> <<>>,
                           err |-> "", trace |-> <<"received">>])
    /\ UNCHANGED <<opVars, CAMERA_TOKEN, rawLog, frames, broadcasts, hubVars, piVars>>

\* await saveRaw(topic, text) returns or throws
BusAfterSaveRaw1(m) ==
    /\ bus[m].pc = "saveRaw1"
    /\ \/ /\ rawLog' = saveRawCreate(rawLog, m, bus[m].text)
          /\ bus' = [bus EXCEPT ![m] =
                        ParseStep([bus[m] EXCEPT !.trace = @ \o <<"rawLogged">>],
                                  CAMERA_TOKEN)]
       \/ /\ bus' = [bus EXCEPT ![m] = Catch(bus[m], "saveRaw failed", <<>>)]
          /\ UNCHANGED rawLog
    /\ UNCHANGED <<opVars, CAMERA_TOKEN, frames, broadcasts, hubVars, piVars>>

\* BusAfterEnrich without the fallback to the embedded camera_info
BusAfterEnrichNoFallback(m) ==
    /\ bus[m].pc = "enrich"
    /\ \/ bus' = [bus EXCEPT ![m] =
                    ValidateStep(bus[m], Enriched(JSONparse(bus[m].text).doc), <<"enriched">>)]
       \/ bus' = [bus EXCEPT ![m] =
                    Catch(bus[m], "Camera info not available and API call failed",
                          <<"enrichFailed">>)]
    /\ UNCHANGED <<opVars, CAMERA_TOKEN, rawLog, frames, broadcasts, hubVars, piVars>>

\* BusAfterEnrich that calls the provider a second time when the first
\* call has failed
BusAfterEnrichRetry(m) ==
    /\ bus[m].pc = "enrich"
    /\ \/ bus' = [bus EXCEPT ![m] =
                    ValidateStep(bus[m], Enriched(JSONparse(bus[m].text).doc), <<"enriched">>)]
       \/ /\ Len(SelectSeq(bus[m].trace, LAMBDA x : x = "enrichCall")) = 1
          /\ bus' = [bus EXCEPT ![m].trace = @ \o <<"enrichCall">>]
       \/ /\ Len(SelectSeq(bus[m].trace, LAMBDA x : x = "enrichCall")) = 2
          /\ bus' = [bus EXCEPT ![m] =
                       IF HasEmbeddedInfo(JSONparse(bus[m].text).doc)
                       THEN ValidateStep(bus[m], JSONparse(bus[m].text).doc,
                                         <<"enrichFailed">>)
                       ELSE Catch(bus[m], "Camera info not available and API call failed",
                                  <<"enrichFailed">>)]
    /\ UNCHANGED <<opVars, CAMERA_TOKEN, rawLog, frames, broadcasts, hubVars, piVars>>

\* await mapCameraInfo(payloadWithoutToken, token) returns or throws
BusAfterEnrich(m) ==
    /\ bus[m].pc = "enrich"
    /\ \/ bus' = [bus EXCEPT ![m] =
                    ValidateStep(bus[m], Enriched(JSONparse(bus[m].text).doc), <<"enriched">>)]
       \/ bus' = [bus EXCEPT ![m] =
                    IF HasEmbeddedInfo(JSONparse(bus[m].text).doc)
                    THEN ValidateStep(bus[m], JSONparse(bus[m].text).doc,
                                      <<"enrichFailed">>)
                    ELSE Catch(bus[m], "Camera info not available and API call failed",
                               <<"enrichFailed">>)]
    /\ UNCHANGED <<opVars, CAMERA_TOKEN, rawLog, frames, broadcasts, hubVars, piVars>>

\* await saveFrame(...) returns: broadcast, then the call of
\* saveRaw(topic, text, { parseOk: true }); or it throws
BusAfterSaveFrame(m) ==
    /\ bus[m].pc = "saveFrame"
    /\ \/ /\ frames' = saveFrame(frames, SaveFrameParams(bus[m].frame[1]), BusSrc(m))
          /\ \E F \in SUBSET OpenMembers :
                broadcast(BusEvent(bus[m].frame[1]), BusSrc(m), F)
          /\ bus' = [bus EXCEPT ![m].pc = "saveRawOk",
                                ![m].trace = @ \o <<"persisted", "broadcast">>]
       \/ /\ bus' = [bus EXCEPT ![m] = Catch(bus[m], "saveFrame failed", <<>>)]
          /\ UNCHANGED <<frames, broadcasts, hubVars>>
    /\ UNCHANGED <<opVars, CAMERA_TOKEN, rawLog, piVars>>

\* BusAfterSaveRawOk without the return: after the ok write the handler goes
\* on into the failure write
BusAfterSaveRawOkNoReturn(m) ==
    /\ bus[m].pc = "saveRawOk"
    /\ rawLog' = saveRawOutcome(rawLog, m, TRUE, "")
    /\ bus' = [bus EXCEPT ![m].pc = "saveRawFail", ![m].trace = @ \o <<"rawOk">>]
    /\ UNCHANGED <<opVars, CAMERA_TOKEN, frames, broadcasts, hubVars, piVars>>

\* await saveRaw(topic, text, { parseOk: true }) returns, and the handler
\* returns; or it throws
BusAfterSaveRawOk(m) ==
    /\ bus[m].pc = "saveRawOk"
    /\ \/ /\ rawLog' = saveRawOutcome(rawLog, m, TRUE, "")
          /\ bus' = [bus EXCEPT ![m].pc = "done", ![m].trace = @ \o <<"rawOk">>]
       \/ /\ bus' = [bus EXCEPT ![m] = Catch(bus[m], "saveRaw failed", <<>>)]
          /\ UNCHANGED rawLog
    /\ UNCHANGED <<opVars, CAMERA_TOKEN, frames, broadcasts, hubVars, piVars>>

\* the catch block: await saveRaw(topic, text, { parseOk: false, error })
\* returns, and the handler ends; or it throws out of the handler
BusAfterSaveRawFail(m) ==
    /\ bus[m].pc = "saveRawFail"
    /\ \/ /\ rawLog' = saveRawOutcome(rawLog, m, FALSE, bus[m].err)
          /\ bus' = [bus EXCEPT ![m].pc = "done", ![m].trace = @ \o <<"rawFailed">>]
       \/ /\ bus' = [bus EXCEPT ![m].pc = "rejected", ![m].trace = @ \o <<"uncaught">>]
          /\ UNCHANGED rawLog
    /\ UNCHANGED <<opVars, CAMERA_TOKEN, frames, broadcasts, hubVars, piVars>>

BusNext ==
    \/ \E text \in BusTexts : BusDeliver(text)
    \/ \E m \in DOMAIN bus :
         \/ BusAfterSaveRaw1(m)
         \/ BusAfterEnrich(m)
         \/ BusAfterSaveFrame(m)
         \/ BusAfterSaveRawOk(m)
         \/ BusAfterSaveRawFail(m)

----------------------------------------------------------------------------
(* Device (Pi camera) sessions.  A connection is served either by the /ws  *)
(* route of server.ts ("server") or by the stand-alone WebSocket server    *)
(* ("wsserver"); the two keep pendingMetadata differently.                 *)

\* the i-th message of a device, by kind
\* the camera a device reports frames of
CamOf(d) == IF d = "d1" THEN "CAM1" ELSE "CAM2"

MetaDoc(d, i) ==
    [Doc(Str(ToString(i)), TokenObject(<<EmbeddedInfo>>), Image640, <<<<ObjO1>>>>)
        EXCEPT !.cam_id = Str(CamOf(d))]
BadMetaDoc(d, i) ==
    [Doc(Str(ToString(i)), TokenObject(<<EmbeddedInfo>>), <<>>, <<<<ObjO1>>>>)
        EXCEPT !.cam_id = Str(CamOf(d))]

PiKinds == {"meta", "badmeta", "garbage", "bin"}

\* data[0] of a Buffer of length 0 (undefined)
NoByte == -1

PiData(d, kind, i) ==
    CASE kind = "meta"    -> [first |-> 123, json |-> Text(MetaDoc(d, i)), image |-> 0]
      [] kind = "badmeta" -> [first |-> 123, json |-> Text(BadMetaDoc(d, i)), image |-> 0]
      [] kind = "garbage" -> [first |-> 34, json |-> Garbage, image |-> 0]
      [] kind = "bin"     -> [first |-> 255, json |-> Garbage, image |-> i]
      [] kind = "empty"   -> [first |-> NoByte, json |-> Garbage, image |-> i]
      [] kind = "spaced"  -> [first |-> 32, json |-> Text(MetaDoc(d, i)), image |-> i]

\* data[0] === 0x7b || data[0] === 0x22
\* IsJsonMessage that knows the opening brace only
IsJsonMessageBrace(data) == data.first = 123

IsJsonMessage(data) == data.first = 123 \/ data.first = 34

\* data.toString("base64")
toBase64(image) == [base64 |-> image]

\* cameraInfo built from the provider's answer
PiCameraInfo == ApiInfo

\* { kind: "frame", meta: { ...metadata, ...(cameraInfo && { token_id }) },
\*   image_jpeg_base64 }.  metadata is <<>> for null (its spread adds no
\* field) and cameraInfo is <<>> for null (no token_id is added), so the
\* meta object is kept as the two spreads it is made of.
FramePayload(metadata, cameraInfo, imageBase64) ==
    [kind |-> "frame",
     meta |-> [spread |-> metadata, token_id |-> cameraInfo],
     image_jpeg_base64 |-> imageBase64]

\* the fields of a meta object: those of the metadata, token_id replaced
\* by the second spread when there is one
MetaFields(meta) ==
    IF meta.token_id = <<>> THEN meta.spread[1]
    ELSE [meta.spread[1] EXCEPT !.token_id = [camera_info |-> meta.token_id[1]]]

PiSrc(h) == [path |-> "pi", id |-> h]

NoSession == [state |-> "none", endpoint |-> "server", creds |-> FALSE,
              pendingMetadata |-> <<>>, sent |-> <<>>]

\* a device connects with role=pi; creds: cam_id and token are both given
PiConnect(d, endpoint, creds) ==
    /\ pi[d].state = "none"
    /\ pi' = [pi EXCEPT ![d] = [state |-> "open", endpoint |-> endpoint, creds |-> creds,
                                pendingMetadata |-> <<>>, sent |-> <<>>]]
    /\ UNCHANGED <<opVars, busVars, frames, broadcasts, hubVars, piHandlers>>

\* PiClose that ends the handlers of the connection that are in flight
PiCloseCancel(d) ==
    /\ pi[d].state = "open"
    /\ pi' = [pi EXCEPT ![d].state = "closed"]
    /\ piHandlers' = [h \in DOMAIN piHandlers |->
                        IF piHandlers[h].dev = d /\ piHandlers[h].pc # "done"
                        THEN [piHandlers[h] EXCEPT !.pc = "done", !.out = "cancelled"]
                        ELSE piHandlers[h]]
    /\ UNCHANGED <<opVars, busVars, frames, broadcasts, hubVars>>

\* the connection closes; handlers in flight are not touched
PiClose(d) ==
    /\ pi[d].state = "open"
    /\ pi' = [pi EXCEPT ![d].state = "closed"]
    /\ UNCHANGED <<opVars, busVars, frames, broadcasts, hubVars, piHandlers>>

NewHandler(d, kind, data, pc) ==
    [dev |-> d, no |-> Len(pi[d].sent) + 1, kind |-> kind, data |-> data, pc |-> pc,
     metadata |-> <<>>, cameraInfo |-> <<>>, out |-> "none"]

\* ServerOnMessage without the test of pendingMetadata
ServerOnMessageNoCheck(d, kind) ==
    LET data == PiData(d, kind, Len(pi[d].sent) + 1)
        pc == IF IsJsonMessage(data)
              THEN IF data.json.wellFormed THEN "importSchema" ELSE "done"
              ELSE IF pi[d].creds THEN "axios" ELSE "importHub"
        out == IF pc # "done" THEN "none" ELSE "error"
    IN  /\ pi[d].state = "open" /\ pi[d].endpoint = "server"
        /\ Len(pi[d].sent) < MaxPiMsgs
        /\ piHandlers' = Append(piHandlers,
                                [NewHandler(d, kind, data, pc) EXCEPT !.out = out])
        /\ pi' = [pi EXCEPT ![d].sent = Append(@, kind)]
        /\ UNCHANGED <<opVars, busVars, frames, broadcasts, hubVars>>

\* server.ts, conn.on("message"): the handler runs up to its first await.
\* JSON: JSON.parse, then await import("./schemas/frame.js").
\* Binary: the pendingMetadata check, then the axios call when cam_id and
\* token are given, else await import("./ws/hub.js").
ServerOnMessage(d, kind) ==
    LET data == PiData(d, kind, Len(pi[d].sent) + 1)
        pc == IF IsJsonMessage(data)
              THEN IF data.json.wellFormed THEN "importSchema" ELSE "done"
              ELSE IF pi[d].pendingMetadata = <<>> THEN "done"
              ELSE IF pi[d].creds THEN "axios" ELSE "importHub"
        out == IF pc # "done" THEN "none"
               ELSE IF IsJsonMessage(data) THEN "error" ELSE "noMetadata"
    IN  /\ pi[d].state = "open" /\ pi[d].endpoint = "server"
        /\ Len(pi[d].sent) < MaxPiMsgs
        /\ piHandlers' = Append(piHandlers,
                                [NewHandler(d, kind, data, pc) EXCEPT !.out = out])
        /\ pi' = [pi EXCEPT ![d].sent = Append(@, kind)]
        /\ UNCHANGED <<opVars, busVars, frames, broadcasts, hubVars>>

\* ServerAfterImportSchema that drops the buffered metadata when the new
\* metadata is refused
ServerAfterImportSchemaReset(h) ==
    LET d == piHandlers[h].dev
        json == piHandlers[h].data.json.doc
    IN  /\ piHandlers[h].pc = "importSchema"
        /\ IF frameSchemaOk(json)
           THEN /\ pi' = [pi EXCEPT ![d].pendingMetadata = <<frameSchemaParse(json)>>]
                /\ piHandlers' = [piHandlers EXCEPT ![h].pc = "done", ![h].out = "buffered"]
           ELSE /\ pi' = [pi EXCEPT ![d].pendingMetadata = <<>>]
                /\ piHandlers' = [piHandlers EXCEPT ![h].pc = "done", ![h].out = "error"]
        /\ UNCHANGED <<opVars, busVars, frames, broadcasts, hubVars>>

\* ServerAfterImportSchema with one pendingMetadata for all connections
ServerAfterImportSchemaShared(h) ==
    LET json == piHandlers[h].data.json.doc
    IN  /\ piHandlers[h].pc = "importSchema"
        /\ IF frameSchemaOk(json)
           THEN /\ pi' = [d \in Connections |->
                            [pi[d] EXCEPT !.pendingMetadata = <<frameSchemaParse(json)>>]]
                /\ piHandlers' = [piHandlers EXCEPT ![h].pc = "done", ![h].out = "buffered"]
           ELSE /\ piHandlers' = [piHandlers EXCEPT ![h].pc = "done", ![h].out = "error"]
                /\ UNCHANGED pi
        /\ UNCHANGED <<opVars, busVars, frames, broadcasts, hubVars>>

\* server.ts: the import of the schema module resolves; frameSchema.parse,
\* and pendingMetadata is assigned
ServerAfterImportSchema(h) ==
    LET d == piHandlers[h].dev
        json == piHandlers[h].data.json.doc
    IN  /\ piHandlers[h].pc = "importSchema"
        /\ IF frameSchemaOk(json)
           THEN /\ pi' = [pi EXCEPT ![d].pendingMetadata = <<frameSchemaParse(json)>>]
                /\ piHandlers' = [piHandlers EXCEPT ![h].pc = "done", ![h].out = "buffered"]
           ELSE /\ piHandlers' = [piHandlers EXCEPT ![h].pc = "done", ![h].out = "error"]
                /\ UNCHANGED pi
        /\ UNCHANGED <<opVars, busVars, frames, broadcasts, hubVars>>

\* server.ts: axios.get returns (cameraInfo is set) or throws (it stays
\* null); then await import("./ws/hub.js")
ServerAfterAxios(h) ==
    /\ piHandlers[h].pc = "axios"
    /\ \E cameraInfo \in {<<>>, <<PiCameraInfo>>} :
          piHandlers' = [piHandlers EXCEPT ![h].pc = "importHub",
                                           ![h].cameraInfo = cameraInfo]
    /\ UNCHANGED <<opVars, busVars, frames, broadcasts, hubVars, pi>>

\* ServerAfterImportHub with a saveFrame call before the broadcast
ServerAfterImportHubPersist(h) ==
    LET d == piHandlers[h].dev
        pending == pi[d].pendingMetadata
        payload == FramePayload(pending, piHandlers[h].cameraInfo,
                                toBase64(piHandlers[h].data.image))
    IN  /\ piHandlers[h].pc = "importHub"
        /\ frames' = IF pending = <<>> THEN frames
                     ELSE saveFrame(frames, SaveFrameParams(MetaFields(payload.meta)),
                                    PiSrc(h))
        /\ \E F \in SUBSET OpenMembers : broadcast(payload, PiSrc(h), F)
        /\ pi' = [pi EXCEPT ![d].pendingMetadata = <<>>]
        /\ piHandlers' = [piHandlers EXCEPT ![h].pc = "done",
                            ![h].out = IF pending = <<>> THEN "frameThenError" ELSE "frame"]
        /\ UNCHANGED <<opVars, busVars>>

\* server.ts: the import of the hub resolves; the frame payload is built
\* from pendingMetadata as it is now and broadcast.  Then the log line reads
\* pendingMetadata.fram_id, which throws into the catch when pendingMetadata
\* is null; otherwise pendingMetadata is set to null.
ServerAfterImportHub(h) ==
    LET d == piHandlers[h].dev
        pending == pi[d].pendingMetadata
        payload == FramePayload(pending, piHandlers[h].cameraInfo,
                                toBase64(piHandlers[h].data.image))
    IN  /\ piHandlers[h].pc = "importHub"
        /\ \E F \in SUBSET OpenMembers : broadcast(payload, PiSrc(h), F)
        /\ pi' = [pi EXCEPT ![d].pendingMetadata = <<>>]
        /\ piHandlers' = [piHandlers EXCEPT ![h].pc = "done",
                            ![h].out = IF pending = <<>> THEN "frameThenError" ELSE "frame"]
        /\ UNCHANGED <<opVars, busVars, frames>>

\* the stand-alone server, ws.on("message"): JSON metadata is parsed,
\* validated and stored in one go.  A binary message takes the pending
\* metadata and clears it at once; then it awaits fetchCameraInfo when
\* cam_id and token are given, else it broadcasts right away.
WsOnMessage(d, kind) ==
    LET data == PiData(d, kind, Len(pi[d].sent) + 1)
        h == NewHandler(d, kind, data, "done")
        pending == pi[d].pendingMetadata
    IN  /\ pi[d].state = "open" /\ pi[d].endpoint = "wsserver"
        /\ Len(pi[d].sent) < MaxPiMsgs
        /\ IF IsJsonMessage(data)
           THEN /\ IF data.json.wellFormed /\ frameSchemaOk(data.json.doc)
                   THEN /\ pi' = [pi EXCEPT
                                    ![d].pendingMetadata = <<frameSchemaParse(data.json.doc)>>,
                                    ![d].sent = Append(@, kind)]
                        /\ piHandlers' = Append(piHandlers, [h EXCEPT !.out = "buffered"])
                   ELSE /\ pi' = [pi EXCEPT ![d].sent = Append(@, kind)]
                        /\ piHandlers' = Append(piHandlers, [h EXCEPT !.out = "error"])
                /\ UNCHANGED <<broadcasts, hubVars>>
           ELSE IF pending = <<>>
           THEN /\ pi' = [pi EXCEPT ![d].sent = Append(@, kind)]
                /\ piHandlers' = Append(piHandlers, [h EXCEPT !.out = "noMetadata"])
                /\ UNCHANGED <<broadcasts, hubVars>>
           ELSE IF pi[d].creds
           THEN /\ pi' = [pi EXCEPT ![d].pendingMetadata = <<>>,
                                    ![d].sent = Append(@, kind)]
                /\ piHandlers' = Append(piHandlers,
                                        [h EXCEPT !.pc = "fetch", !.metadata = pending])
                /\ UNCHANGED <<broadcasts, hubVars>>
           ELSE /\ pi' = [pi EXCEPT ![d].pendingMetadata = <<>>,
                                    ![d].sent = Append(@, kind)]
                /\ piHandlers' = Append(piHandlers,
                                        [h EXCEPT !.metadata = pending, !.out = "frame"])
                /\ \E F \in SUBSET OpenMembers :
                      broadcast(FramePayload(pending, <<>>, toBase64(data.image)),
                                PiSrc(Len(piHandlers) + 1), F)
        /\ UNCHANGED <<opVars, busVars, frames>>

\* the stand-alone server: fetchCameraInfo returns the camera info, or null
\* after a failed call; the frame is built from the metadata taken before
\* the await, and broadcast
WsAfterFetch(h) ==
    /\ piHandlers[h].pc = "fetch"
    /\ \E cameraInfo \in {<<>>, <<PiCameraInfo>>}, F \in SUBSET OpenMembers :
          /\ broadcast(FramePayload(piHandlers[h].metadata, cameraInfo,
                                    toBase64(piHandlers[h].data.image)), PiSrc(h), F)
          /\ piHandlers' = [piHandlers EXCEPT ![h].pc = "done", ![h].out = "frame",
                                              ![h].cameraInfo = cameraInfo]
    /\ UNCHANGED <<opVars, busVars, frames, pi>>

\* one device connection
PiNext ==
    \/ \E d \in OneDevice, endpoint \in {"server", "wsserver"}, creds \in BOOLEAN :
          PiConnect(d, endpoint, creds)
    \/ \E d \in OneDevice : PiClose(d)
    \/ \E d \in OneDevice, kind \in PiKinds : ServerOnMessage(d, kind)
    \/ \E d \in OneDevice, kind \in PiKinds : WsOnMessage(d, kind)
    \/ \E h \in DOMAIN piHandlers :
          \/ ServerAfterImportSchema(h)
          \/ ServerAfterAxios(h)
          \/ ServerAfterImportHub(h)
          \/ WsAfterFetch(h)

\* two device connections side by side
SessionsNext ==
    \/ \E d \in Devices, endpoint \in {"server", "wsserver"}, creds \in BOOLEAN :
          PiConnect(d, endpoint, creds)
    \/ \E d \in Devices : PiClose(d)
    \/ \E d \in Devices, kind \in PiKinds :
          Len(piHandlers) < MaxSessionMsgs /\ ServerOnMessage(d, kind)
    \/ \E d \in Devices, kind \in PiKinds :
          Len(piHandlers) < MaxSessionMsgs /\ WsOnMessage(d, kind)
    \/ \E h \in DOMAIN piHandlers :
          \/ ServerAfterImportSchema(h)
          \/ ServerAfterAxios(h)
          \/ ServerAfterImportHub(h)
          \/ WsAfterFetch(h)

----------------------------------------------------------------------------
(* Viewers and the hub.                                                    *)

\* a viewer connects: registerViewer adds its socket to viewerClients
\* a delete that puts back a socket that is not in the set
unregisterToggle(clients, w) ==
    IF w \in clients THEN clients \ {w} ELSE clients \cup {w}

\* viewerClients.delete(ws): removes the socket when it is there, does
\* nothing when it is not, and never throws
unregister(clients, w) == clients \ {w}

ViewerConnect(w) ==
    /\ readyState[w] = "NONE"
    /\ viewerClients' = viewerClients \cup {w}
    /\ readyState' = [readyState EXCEPT ![w] = "OPEN"]
    /\ UNCHANGED <<opVars, busVars, frames, broadcasts, received, failedSends, piVars>>

\* the closing handshake of a viewer's socket starts: readyState leaves OPEN
\* before the close event is emitted
ViewerClosing(w) ==
    /\ readyState[w] = "OPEN"
    /\ readyState' = [readyState EXCEPT ![w] = "CLOSING"]
    /\ UNCHANGED <<opVars, busVars, frames, broadcasts, viewerClients, received, failedSends,
                   piVars>>

\* ViewerClose whose listeners do not delete the socket
ViewerCloseNoDelete(w) ==
    /\ readyState[w] \in {"OPEN", "CLOSING"}
    /\ readyState' = [readyState EXCEPT ![w] = "CLOSED"]
    /\ UNCHANGED <<opVars, busVars, frames, broadcasts, viewerClients, received,
                   failedSends, piVars>>

\* the close event of a viewer's socket: both close listeners delete it
ViewerClose(w) ==
    /\ readyState[w] \in {"OPEN", "CLOSING"}
    /\ readyState' = [readyState EXCEPT ![w] = "CLOSED"]
    /\ viewerClients' = unregister(unregister(viewerClients, w), w)
    /\ UNCHANGED <<opVars, busVars, frames, broadcasts, received, failedSends, piVars>>

\* an ingestion path calls broadcast(payload)
HubBroadcast(payload) ==
    /\ Len(broadcasts) < MaxBroadcasts
    /\ \E F \in SUBSET OpenMembers : broadcast(payload, [path |-> "hub", id |-> 0], F)
    /\ UNCHANGED <<opVars, busVars, frames, piVars>>

HubPayloads == {BusEvent(frameSchemaParse(MetaDoc("d1", 1)))}

HubNext ==
    \/ \E w \in Viewers : ViewerConnect(w)
    \/ \E w \in Viewers : ViewerClosing(w)
    \/ \E w \in Viewers : ViewerClose(w)
    \/ \E payload \in HubPayloads : HubBroadcast(payload)

----------------------------------------------------------------------------
(* broadcast, one turn of its loop at a time.  The loop is "for (const ws  *)
(* of viewerClients)": it walks the live set, so a member deleted before   *)
(* its turn is not visited, one added before the loop ends is, and         *)
(* deleting during the walk raises nothing.  Listeners that run while the  *)
(* loop is on the stack (a send may run them) register and unregister      *)
(* members between two turns.                                              *)

\* broadcast(payload) is called: JSON.stringify, and the loop starts
BroadcastStart(payload) ==
    /\ sending = <<>>
    /\ Len(broadcasts) < MaxLoopBroadcasts
    /\ broadcasts' = Append(broadcasts,
                            [payload |-> payload, src |-> [path |-> "hub", id |-> 0],
                             members |-> viewerClients, open |-> OpenMembers])
    /\ sending' = <<[n |-> Len(broadcasts) + 1, visited |-> {}]>>
    /\ UNCHANGED <<admin, busVars, frames, hubVars, piVars>>

\* BroadcastVisit that drops the member it has sent to
BroadcastVisitDrop(w) ==
    /\ sending # <<>>
    /\ w \in viewerClients \ sending[1].visited
    /\ sending' = <<[sending[1] EXCEPT !.visited = @ \cup {w}]>>
    /\ IF readyState[w] = "OPEN"
       THEN \/ /\ received' = [received EXCEPT ![w] = Append(@, sending[1].n)]
               /\ viewerClients' = viewerClients \ {w}
               /\ UNCHANGED failedSends
            \/ /\ failedSends' = failedSends \cup {<<w, sending[1].n>>}
               /\ UNCHANGED <<received, viewerClients>>
       ELSE UNCHANGED <<received, failedSends, viewerClients>>
    /\ UNCHANGED <<admin, busVars, frames, broadcasts, readyState, piVars>>

\* one turn of the loop, for member w: the readyState test, then send(msg),
\* which returns or throws into the catch that logs
BroadcastVisit(w) ==
    /\ sending # <<>>
    /\ w \in viewerClients \ sending[1].visited
    /\ sending' = <<[sending[1] EXCEPT !.visited = @ \cup {w}]>>
    /\ IF readyState[w] = "OPEN"
       THEN \/ /\ received' = [received EXCEPT ![w] = Append(@, sending[1].n)]
               /\ UNCHANGED failedSends
            \/ /\ failedSends' = failedSends \cup {<<w, sending[1].n>>}
               /\ UNCHANGED received
       ELSE UNCHANGED <<received, failedSends>>
    /\ UNCHANGED <<admin, busVars, frames, broadcasts, viewerClients, readyState, piVars>>

\* BroadcastReturn for a loop that a failure can end before its last turn
BroadcastReturnEarly ==
    /\ sending # <<>>
    /\ sending' = <<>>
    /\ UNCHANGED <<admin, busVars, frames, broadcasts, hubVars, piVars>>

\* no member is left to visit: broadcast returns
BroadcastReturn ==
    /\ sending # <<>>
    /\ viewerClients \ sending[1].visited = {}
    /\ sending' = <<>>
    /\ UNCHANGED <<admin, busVars, frames, broadcasts, hubVars, piVars>>

HubLoopNext ==
    \/ \E w \in Viewers : ViewerConnect(w)
    \/ \E w \in Viewers : ViewerClosing(w)
    \/ \E w \in Viewers : ViewerClose(w)
    \/ \E payload \in HubPayloads : BroadcastStart(payload)
    \/ \E w \in Viewers : BroadcastVisit(w)
    \/ BroadcastReturn

----------------------------------------------------------------------------
(* Helpers of the properties.                                              *)

Range(seq) == {seq[i] : i \in DOMAIN seq}

\* the broadcast calls a handler made
EventsOf(src) == {i \in DOMAIN broadcasts : broadcasts[i].src = src}

\* the frames a handler persisted
FramesOf(src) == {j \in DOMAIN frames : frames[j].src = src}

\* the raw records of bus message m
RawOf(m) == {i \in DOMAIN rawLog : rawLog[i].msg = m}

Finished(h) == h.pc \in {"done", "rejected"}

\* the number a numeric field of the model's payloads stands for, read off
\* the payloads rather than computed by the schema
Expected(v) ==
    IF v.t = "num" THEN v.n
    ELSE CASE v.s = <<"1", "3">> -> 13
           [] v.s = <<"1", "5">> -> 15
           [] v.s = <<"5", "0">> -> 50
           [] OTHER -> -1

----------------------------------------------------------------------------
(* The reprocess route, POST /admin/reprocess/:rawId.                      *)
(* pc of a request: the await it is suspended at ("getRaw", "saveFrame"),  *)
(* "replied" once the reply has been sent.                                 *)

\* services/raw.ts is not part of the sources at hand; getRawById follows
\* the Store of the specification: the record with that identifier, or null
\* (<<>>) when there is none.  The identifier of a record is its place in
\* the log.
getRawById(log, rawId) == IF rawId \in DOMAIN log THEN <<log[rawId]>> ELSE <<>>

\* the bodies of the model's requests: the keys of body.set and their
\* values.  "fix" sets token_id and objects; "break" sets image_info to an
\* object that has a width and no height.
PatchNames == {"none", "fix", "break"}

Patch(name) ==
    CASE name = "fix" ->
           [keys |-> {"token_id", "objects"},
            set |-> Doc(Absent, TokenObject(<<EmbeddedInfo>>), <<>>, <<<<ObjO2>>>>)]
      [] name = "break" ->
           [keys |-> {"image_info"},
            set |-> Doc(Absent, NoTokenId, <<[width |-> Num(800), height |-> Absent]>>, <<>>)]
      [] OTHER ->
           [keys |-> {}, set |-> Doc(Absent, NoTokenId, <<>>, <<>>)]

\* Patched with the object under a patched image_info merged field by field
\* into the one of the raw document
PatchedDeep(json, patch) ==
    LET merged ==
          IF json.image_info = <<>> \/ patch.set.image_info = <<>>
          THEN patch.set.image_info
          ELSE <<[width |-> IF patch.set.image_info[1].width = Absent
                            THEN json.image_info[1].width
                            ELSE patch.set.image_info[1].width,
                  height |-> IF patch.set.image_info[1].height = Absent
                             THEN json.image_info[1].height
                             ELSE patch.set.image_info[1].height]>>
    IN
    [fram_id    |-> IF "fram_id" \in patch.keys THEN patch.set.fram_id ELSE json.fram_id,
     cam_id     |-> IF "cam_id" \in patch.keys THEN patch.set.cam_id ELSE json.cam_id,
     token_id   |-> IF "token_id" \in patch.keys THEN patch.set.token_id ELSE json.token_id,
     timestamp  |-> IF "timestamp" \in patch.keys THEN patch.set.timestamp
                    ELSE json.timestamp,
     image_info |-> IF "image_info" \in patch.keys THEN merged ELSE json.image_info,
     objects    |-> IF "objects" \in patch.keys THEN patch.set.objects ELSE json.objects]

\* { ...json, ...patch }: a key of the patch replaces the key of the same
\* name as a whole
Patched(json, patch) ==
    [fram_id    |-> IF "fram_id" \in patch.keys THEN patch.set.fram_id ELSE json.fram_id,
     cam_id     |-> IF "cam_id" \in patch.keys THEN patch.set.cam_id ELSE json.cam_id,
     token_id   |-> IF "token_id" \in patch.keys THEN patch.set.token_id ELSE json.token_id,
     timestamp  |-> IF "timestamp" \in patch.keys THEN patch.set.timestamp
                    ELSE json.timestamp,
     image_info |-> IF "image_info" \in patch.keys THEN patch.set.image_info
                    ELSE json.image_info,
     objects    |-> IF "objects" \in patch.keys THEN patch.set.objects ELSE json.objects]

AdminSrc(r) == [path |-> "admin", id |-> r]

Reply(h, code, error) == [h EXCEPT !.pc = "replied", !.code = code, !.error = error]

\* a request arrives: the handler runs up to await getRawById(rawId)
Reprocess(rawId, patch) ==
    /\ Len(admin) < MaxReprocess
    /\ admin' = Append(admin, [rawId |-> rawId, patch |-> patch, pc |-> "getRaw",
                               patched |-> <<>>, frame |-> <<>>, code |-> 0,
                               error |-> "", id |-> 0])
    /\ UNCHANGED <<sending, busVars, frames, broadcasts, hubVars, piVars>>

\* ReprocessStep that takes a payload that is not JSON for an empty document
ReprocessStepNoChecks(h, raw) ==
    IF raw = <<>> THEN Reply(h, 400, "ZodError")
    ELSE LET patched == Patched(JSONparse(raw[1].payload).doc, Patch(h.patch))
         IN  IF frameSchemaOk(patched)
             THEN [h EXCEPT !.pc = "saveFrame", !.patched = <<patched>>,
                            !.frame = <<frameSchemaParse(patched)>>]
             ELSE [Reply(h, 400, "ZodError") EXCEPT !.patched = <<patched>>]

\* lines 80-89, run once getRawById has returned raw: the 404, JSON.parse
\* and its 400, the patch, frameSchema.parse and the call of saveFrame
ReprocessStep(h, raw) ==
    IF raw = <<>> THEN Reply(h, 404, "raw not found")
    ELSE IF ~JSONparse(raw[1].payload).wellFormed THEN Reply(h, 400, "invalid raw json")
    ELSE LET patched == Patched(JSONparse(raw[1].payload).doc, Patch(h.patch))
         IN  IF frameSchemaOk(patched)
             THEN [h EXCEPT !.pc = "saveFrame", !.patched = <<patched>>,
                            !.frame = <<frameSchemaParse(patched)>>]
             ELSE [Reply(h, 400, "ZodError") EXCEPT !.patched = <<patched>>]

\* await getRawById(rawId) returns; or it throws, out of the handler, and
\* the server replies 500
ReprocessAfterGetRaw(r) ==
    /\ admin[r].pc = "getRaw"
    /\ \/ admin' = [admin EXCEPT ![r] = ReprocessStep(admin[r], getRawById(rawLog, admin[r].rawId))]
       \/ admin' = [admin EXCEPT ![r] = Reply(admin[r], 500, "getRawById failed")]
    /\ UNCHANGED <<sending, busVars, frames, broadcasts, hubVars, piVars>>

\* ReprocessAfterSaveFrame for a route that saves what it was given when
\* the validation has failed
ReprocessAfterSaveFrameAnyway(r) ==
    \/ /\ admin[r].pc = "saveFrame"
       /\ frames' = saveFrame(frames, SaveFrameParams(admin[r].frame[1]), AdminSrc(r))
       /\ admin' = [admin EXCEPT ![r].pc = "replied", ![r].code = 200,
                                 ![r].id = Len(frames) + 1]
       /\ UNCHANGED <<sending, busVars, broadcasts, hubVars, piVars>>
    \/ /\ admin[r].pc = "replied" /\ admin[r].error = "ZodError"
       /\ FramesOf(AdminSrc(r)) = {}
       /\ frames' = Append(frames, [id |-> Len(frames) + 1, data |-> <<>>,
                                    src |-> AdminSrc(r)])
       /\ UNCHANGED <<admin, sending, busVars, broadcasts, hubVars, piVars>>

\* ReprocessAfterSaveFrame for a route that marks the raw record it has
\* reprocessed
ReprocessAfterSaveFrameMarksRaw(r) ==
    /\ admin[r].pc = "saveFrame"
    /\ \/ /\ frames' = saveFrame(frames, SaveFrameParams(admin[r].frame[1]), AdminSrc(r))
          /\ admin' = [admin EXCEPT ![r].pc = "replied", ![r].code = 200,
                                    ![r].id = Len(frames) + 1]
          /\ rawLog' = [rawLog EXCEPT ![admin[r].rawId].outcome = "ok",
                                      ![admin[r].rawId].updates = @ + 1]
       \/ /\ admin' = [admin EXCEPT ![r] = Reply(admin[r], 400, "saveFrame failed")]
          /\ UNCHANGED <<frames, rawLog>>
    /\ UNCHANGED <<sending, CAMERA_TOKEN, bus, broadcasts, hubVars, piVars>>

\* ReprocessAfterSaveFrame for a route that broadcasts the frame it saved
ReprocessAfterSaveFrameBroadcast(r) ==
    /\ admin[r].pc = "saveFrame"
    /\ \/ /\ frames' = saveFrame(frames, SaveFrameParams(admin[r].frame[1]), AdminSrc(r))
          /\ admin' = [admin EXCEPT ![r].pc = "replied", ![r].code = 200,
                                    ![r].id = Len(frames) + 1]
          /\ \E F \in SUBSET OpenMembers :
                broadcast(BusEvent(admin[r].frame[1]), AdminSrc(r), F)
       \/ /\ admin' = [admin EXCEPT ![r] = Reply(admin[r], 400, "saveFrame failed")]
          /\ UNCHANGED <<frames, broadcasts, hubVars>>
    /\ UNCHANGED <<sending, busVars, piVars>>

\* await saveFrame(...) returns the id of the new row and the route replies
\* { ok: true, id }; or it throws into the catch, which replies 400
ReprocessAfterSaveFrame(r) ==
    /\ admin[r].pc = "saveFrame"
    /\ \/ /\ frames' = saveFrame(frames, SaveFrameParams(admin[r].frame[1]), AdminSrc(r))
          /\ admin' = [admin EXCEPT ![r].pc = "replied", ![r].code = 200,
                                    ![r].id = Len(frames) + 1]
       \/ /\ admin' = [admin EXCEPT ![r] = Reply(admin[r], 400, "saveFrame failed")]
          /\ UNCHANGED frames
    /\ UNCHANGED <<sending, busVars, broadcasts, hubVars, piVars>>

\* the texts of the raw records that are reprocessed
LoggedTexts == {"embedded", "badObject", "notJson"}

\* The first step of the bus handler fills the raw message log while
\* requests are served; the route reads the payload of a record only.
AdminNext ==
    \/ \E text \in LoggedTexts : Len(bus) < MaxLoggedMsgs /\ BusDeliver(text)
    \/ \E m \in DOMAIN bus : BusAfterSaveRaw1(m)
    \/ \E rawId \in 1..(Len(rawLog) + 1), patch \in PatchNames : Reprocess(rawId, patch)
    \/ \E r \in DOMAIN admin :
         \/ ReprocessAfterGetRaw(r)
         \/ ReprocessAfterSaveFrame(r)

\* the sockets whose role is drawn when they connect, and the values of the
\* role query parameter ("" is no parameter)
RoleConns == {"v1", "d1"}
Roles == {"", "viewer", "pi", "other"}
RoleKinds == {"meta", "bin"}

\* ServerConnection that registers a device socket with the Hub as well
ServerConnectionBoth(c, role, creds) ==
    /\ readyState[c] = "NONE" /\ pi[c].state = "none"
    /\ IF role \in {"", "viewer"} THEN ViewerConnect(c)
       ELSE /\ role = "pi"
            /\ viewerClients' = viewerClients \cup {c}
            /\ readyState' = [readyState EXCEPT ![c] = "OPEN"]
            /\ pi' = [pi EXCEPT ![c] = [NoSession EXCEPT !.state = "open", !.creds = creds]]
            /\ UNCHANGED <<opVars, busVars, frames, broadcasts, received, failedSends,
                           piHandlers>>

\* the /ws route of server.ts on a new socket: no role or role=viewer
\* registers it with the Hub and returns; role=pi opens a device session
\* and attaches the message listener; any other role attaches nothing
ServerConnection(c, role, creds) ==
    /\ readyState[c] = "NONE" /\ pi[c].state = "none"
    /\ IF role \in {"", "viewer"} THEN ViewerConnect(c)
       ELSE IF role = "pi" THEN PiConnect(c, "server", creds)
       ELSE /\ readyState' = [readyState EXCEPT ![c] = "OPEN"]
            /\ UNCHANGED <<opVars, busVars, frames, broadcasts, viewerClients, received,
                           failedSends, piVars>>

\* wss.on("connection") of the stand-alone server: a role that is neither
\* pi nor viewer closes the socket; viewer registers; pi is a device
WsConnection(c, role, creds) ==
    /\ readyState[c] = "NONE" /\ pi[c].state = "none"
    /\ IF role = "viewer" THEN ViewerConnect(c)
       ELSE IF role = "pi" THEN PiConnect(c, "wsserver", creds)
       ELSE /\ readyState' = [readyState EXCEPT ![c] = "CLOSED"]
            /\ UNCHANGED <<opVars, busVars, frames, broadcasts, viewerClients, received,
                           failedSends, piVars>>

\* a socket that is no device sends a message: server.ts has attached no
\* listener to it, and the listener of the stand-alone server returns at
\* its role check; the message is sent and nothing handles it
ViewerMessage(c, kind) ==
    /\ readyState[c] = "OPEN" /\ pi[c].state = "none"
    /\ Len(pi[c].sent) < MaxRoleMsgs
    /\ pi' = [pi EXCEPT ![c].sent = Append(@, kind)]
    /\ UNCHANGED <<opVars, busVars, frames, broadcasts, hubVars, piHandlers>>

RolesNext ==
    \/ \E c \in RoleConns, role \in Roles, creds \in BOOLEAN : ServerConnection(c, role, creds)
    \/ \E c \in RoleConns, role \in Roles, creds \in BOOLEAN : WsConnection(c, role, creds)
    \/ \E c \in RoleConns : ViewerClosing(c)
    \/ \E c \in RoleConns : ViewerClose(c)
    \/ \E c \in RoleConns : PiClose(c)
    \/ \E c \in RoleConns, kind \in RoleKinds : ViewerMessage(c, kind)
    \/ \E c \in RoleConns, kind \in RoleKinds :
          Len(piHandlers) < MaxRoleMsgs /\ ServerOnMessage(c, kind)
    \/ \E c \in RoleConns, kind \in RoleKinds :
          Len(piHandlers) < MaxRoleMsgs /\ WsOnMessage(c, kind)
    \/ \E h \in DOMAIN piHandlers :
          \/ ServerAfterImportSchema(h)
          \/ ServerAfterAxios(h)
          \/ ServerAfterImportHub(h)
          \/ WsAfterFetch(h)

\* the bus handler, with no CAMERA_TOKEN, and a device session of server.ts
\* broadcasting to the same viewer
EventViewers == {"v1"}
EventTexts == {"embedded"}

EventsNext ==
    \/ \E w \in EventViewers : ViewerConnect(w)
    \/ \E text \in EventTexts : Len(bus) + Len(piHandlers) < MaxEventMsgs /\ BusDeliver(text)
    \/ \E m \in DOMAIN bus :
         \/ BusAfterSaveRaw1(m)
         \/ BusAfterSaveFrame(m)
         \/ BusAfterSaveRawOk(m)
         \/ BusAfterSaveRawFail(m)
    \/ \E d \in OneDevice, creds \in BOOLEAN : PiConnect(d, "server", creds)
    \/ \E d \in OneDevice, kind \in RoleKinds :
          Len(bus) + Len(piHandlers) < MaxEventMsgs /\ ServerOnMessage(d, kind)
    \/ \E h \in DOMAIN piHandlers :
          \/ ServerAfterImportSchema(h)
          \/ ServerAfterAxios(h)
          \/ ServerAfterImportHub(h)

\* device messages by their first byte: '{', '"', 0xFF, none (a message of
\* length 0), and a space in front of a JSON text
ByteKinds == {"meta", "garbage", "bin", "empty", "spaced"}

BytesNext ==
    \/ \E d \in OneDevice, endpoint \in {"server", "wsserver"}, creds \in BOOLEAN :
          PiConnect(d, endpoint, creds)
    \/ \E d \in OneDevice, kind \in ByteKinds :
          Len(piHandlers) < MaxByteMsgs /\ ServerOnMessage(d, kind)
    \/ \E d \in OneDevice, kind \in ByteKinds :
          Len(piHandlers) < MaxByteMsgs /\ WsOnMessage(d, kind)
    \/ \E h \in DOMAIN piHandlers :
          \/ ServerAfterImportSchema(h)
          \/ ServerAfterAxios(h)
          \/ ServerAfterImportHub(h)
          \/ WsAfterFetch(h)

\* a binary message's handler is waiting for the provider or for the hub
\* module: its frame is in flight
FrameInFlight(h) == h.pc \in {"axios", "importHub", "fetch"}

\* the device's connection closes while one of its frames is in flight
CloseInFlight(d) ==
    /\ \E h \in DOMAIN piHandlers : piHandlers[h].dev = d /\ FrameInFlight(piHandlers[h])
    /\ PiClose(d)

CloseNext ==
    \/ \E w \in EventViewers : ViewerConnect(w)
    \/ \E d \in OneDevice, endpoint \in {"server", "wsserver"}, creds \in BOOLEAN :
          PiConnect(d, endpoint, creds)
    \/ \E d \in OneDevice : CloseInFlight(d)
    \/ \E d \in OneDevice, kind \in RoleKinds :
          Len(piHandlers) < MaxCloseMsgs /\ ServerOnMessage(d, kind)
    \/ \E d \in OneDevice, kind \in RoleKinds :
          Len(piHandlers) < MaxCloseMsgs /\ WsOnMessage(d, kind)
    \/ \E h \in DOMAIN piHandlers :
          \/ ServerAfterImportSchema(h)
          \/ ServerAfterAxios(h)
          \/ ServerAfterImportHub(h)
          \/ WsAfterFetch(h)

\* the three components that could write the raw log, side by side: the
\* bus handler (no CAMERA_TOKEN), a device session of server.ts and the
\* reprocess route
WriterTexts == {"embedded", "notJson"}
WriterPatches == {"none", "break"}
WriterOps == Len(bus) + Len(piHandlers) + Len(admin)

WritersNext ==
    \/ \E text \in WriterTexts :
          Len(bus) < MaxLoggedMsgs /\ WriterOps < MaxWriterOps /\ BusDeliver(text)
    \/ \E m \in DOMAIN bus :
         \/ BusAfterSaveRaw1(m)
         \/ BusAfterSaveFrame(m)
         \/ BusAfterSaveRawOk(m)
         \/ BusAfterSaveRawFail(m)
    \/ \E d \in OneDevice, creds \in BOOLEAN : PiConnect(d, "server", creds)
    \/ \E d \in OneDevice, kind \in RoleKinds :
          WriterOps < MaxWriterOps /\ ServerOnMessage(d, kind)
    \/ \E h \in DOMAIN piHandlers :
          \/ ServerAfterImportSchema(h)
          \/ ServerAfterAxios(h)
          \/ ServerAfterImportHub(h)
    \/ \E rawId \in 1..(Len(rawLog) + 1), patch \in WriterPatches :
          WriterOps < MaxWriterOps /\ Reprocess(rawId, patch)
    \/ \E r \in DOMAIN admin :
         \/ ReprocessAfterGetRaw(r)
         \/ ReprocessAfterSaveFrame(r)

\* the payloads that are ingested and then reprocessed: camera info
\* embedded, and a token in its place
ReprocessTexts == {"embedded", "token"}

\* the bus handler, and reprocess requests with an empty patch for the raw
\* records it has marked ok
ReprocessOkNext ==
    \/ \E text \in ReprocessTexts : Len(bus) < MaxLoggedMsgs /\ BusDeliver(text)
    \/ \E m \in DOMAIN bus :
         \/ BusAfterSaveRaw1(m)
         \/ BusAfterEnrich(m)
         \/ BusAfterSaveFrame(m)
         \/ BusAfterSaveRawOk(m)
         \/ BusAfterSaveRawFail(m)
    \/ \E rawId \in DOMAIN rawLog :
         rawLog[rawId].outcome = "ok" /\ Reprocess(rawId, "none")
    \/ \E r \in DOMAIN admin :
         \/ ReprocessAfterGetRaw(r)
         \/ ReprocessAfterSaveFrame(r)

\* the payloads of the bus that come with and without a credential
CredTexts == {"embedded", "token"}

\* the paths on which a credential comes in: the bus handler (token_id of
\* the payload, CAMERA_TOKEN) and a device connection with or without
\* cam_id and token, on either server
CredsNext ==
    \/ \E text \in CredTexts :
          /\ Len(bus) < MaxLoggedMsgs /\ Len(bus) + Len(piHandlers) < MaxCredMsgs
          /\ BusDeliver(text)
    \/ \E m \in DOMAIN bus :
         \/ BusAfterSaveRaw1(m)
         \/ BusAfterEnrich(m)
         \/ BusAfterSaveFrame(m)
         \/ BusAfterSaveRawOk(m)
         \/ BusAfterSaveRawFail(m)
    \/ \E d \in OneDevice, endpoint \in {"server", "wsserver"}, creds \in BOOLEAN :
          PiConnect(d, endpoint, creds)
    \/ \E d \in OneDevice, kind \in RoleKinds :
          Len(bus) + Len(piHandlers) < MaxCredMsgs /\ ServerOnMessage(d, kind)
    \/ \E d \in OneDevice, kind \in RoleKinds :
          Len(bus) + Len(piHandlers) < MaxCredMsgs /\ WsOnMessage(d, kind)
    \/ \E h \in DOMAIN piHandlers :
          \/ ServerAfterImportSchema(h)
          \/ ServerAfterAxios(h)
          \/ ServerAfterImportHub(h)
          \/ WsAfterFetch(h)

\* payloads whose objects' numeric fields are numbers, numeric strings,
\* strings that only start as a number, words, or missing
NumericTexts == {"embedded", "latTrailing", "speedTrailing", "latWord", "speedAbsent"}

\* the bus handler on those payloads
NumericNext ==
    \/ \E text \in NumericTexts : BusDeliver(text)
    \/ \E m \in DOMAIN bus :
         \/ BusAfterSaveRaw1(m)
         \/ BusAfterEnrich(m)
         \/ BusAfterSaveFrame(m)
         \/ BusAfterSaveRawOk(m)
         \/ BusAfterSaveRawFail(m)

\* the one payload that is delivered, and reprocessed, again and again
DupTexts == {"embedded"}

\* the bus handler and the reprocess route on the same Store, with no
\* CAMERA_TOKEN
DupNext ==
    \/ \E text \in DupTexts : Len(bus) + Len(admin) < MaxDupOps /\ BusDeliver(text)
    \/ \E m \in DOMAIN bus :
         \/ BusAfterSaveRaw1(m)
         \/ BusAfterSaveFrame(m)
         \/ BusAfterSaveRawOk(m)
         \/ BusAfterSaveRawFail(m)
    \/ \E rawId \in DOMAIN rawLog :
         Len(bus) + Len(admin) < MaxDupOps /\ Reprocess(rawId, "none")
    \/ \E r \in DOMAIN admin :
         \/ ReprocessAfterGetRaw(r)
         \/ ReprocessAfterSaveFrame(r)

----------------------------------------------------------------------------

Init ==
    /\ CAMERA_TOKEN \in {"", "envtok"}
    /\ bus = <<>>
    /\ rawLog = <<>>
    /\ frames = <<>>
    /\ broadcasts = <<>>
    /\ viewerClients = {}
    /\ readyState = [w \in Connections |-> "NONE"]
    /\ received = [w \in Connections |-> <<>>]
    /\ failedSends = {}
    /\ pi = [d \in Connections |-> NoSession]
    /\ piHandlers = <<>>
    /\ sending = <<>>
    /\ admin = <<>>

SpecBus == Init /\ [][BusNext]_vars

\* the continuation of handler m after the call it awaits has settled
BusStep(m) ==
    /\ m \in DOMAIN bus
    /\ \/ BusAfterSaveRaw1(m)
       \/ BusAfterEnrich(m)
       \/ BusAfterSaveFrame(m)
       \/ BusAfterSaveRawOk(m)
       \/ BusAfterSaveRawFail(m)

\* every call a handler awaits settles (the Store calls return or throw,
\* axios answers, fails, or times out), and the event loop then runs the
\* handler's continuation
SpecBusFair == SpecBus /\ \A m \in 1..MaxBusMsgs : WF_vars(BusStep(m))

SpecPi == Init /\ [][PiNext]_vars

SpecSessions == Init /\ [][SessionsNext]_vars

SpecHub == Init /\ [][HubNext]_vars

SpecHubLoop == Init /\ [][HubLoopNext]_vars

SpecAdmin == Init /\ [][AdminNext]_vars

SpecCreds == Init /\ [][CredsNext]_vars

SpecReprocessOk == Init /\ [][ReprocessOkNext]_vars

\* the server started with no CAMERA_TOKEN in its environment: a payload
\* with camera_info and no string token makes no provider call
InitNoToken == Init /\ CAMERA_TOKEN = ""

SpecDup == InitNoToken /\ [][DupNext]_vars

SpecNumeric == Init /\ [][NumericNext]_vars

SpecRoles == Init /\ [][RolesNext]_vars

SpecBytes == Init /\ [][BytesNext]_vars

SpecClose == Init /\ [][CloseNext]_vars

SpecWriters == InitNoToken /\ [][WritersNext]_vars

SpecEvents == InitNoToken /\ [][EventsNext]_vars

Next == BusNext \/ SessionsNext \/ HubNext \/ HubLoopNext \/ AdminNext

Spec == Init /\ [][Next]_vars

----------------------------------------------------------------------------
(* C1.  The bus ingest worker handles one message at a time: for two bus   *)
(* messages A delivered before B, A's frame is persisted and broadcast     *)
(* before B's frame, whatever the latency of A's calls.                    *)
(* The handler is an async listener the emitter does not wait for, so a    *)
(* later message overtakes an earlier one that is still awaiting.          *)
C1_BusOrderIsDeliveryOrder ==
    /\ \A i, j \in DOMAIN frames :
          (i < j /\ frames[i].src.path = "bus" /\ frames[j].src.path = "bus")
             => frames[i].src.id < frames[j].src.id
    /\ \A i, j \in DOMAIN broadcasts :
          (i < j /\ broadcasts[i].src.path = "bus" /\ broadcasts[j].src.path = "bus")
             => broadcasts[i].src.id < broadcasts[j].src.id

----------------------------------------------------------------------------
(* C2.  In a device session that receives a strictly alternating sequence  *)
(* M1,B1,M2,B2,... of valid messages, every binary Bi yields exactly one   *)
(* completed Frame, and that Frame carries the metadata Mi and the image   *)
(* Bi, under every interleaving.                                           *)

Alternating(sent) ==
    \A i \in DOMAIN sent : sent[i] = IF i % 2 = 1 THEN "meta" ELSE "bin"

\* the handler's binary message was paired with the metadata sent just
\* before it: one event, with that metadata and that image
PairedWithOwnMetadata(h) ==
    /\ Cardinality(EventsOf(PiSrc(h))) = 1
    /\ \A i \in EventsOf(PiSrc(h)) :
          /\ broadcasts[i].payload.meta.spread # <<>>
          /\ broadcasts[i].payload.meta.spread[1].fram_id = ToString(piHandlers[h].no - 1)
          /\ broadcasts[i].payload.image_jpeg_base64 = toBase64(piHandlers[h].no)

C2_AlternatingPairsEachBinary ==
    \A h \in DOMAIN piHandlers :
        ( /\ Alternating(pi[piHandlers[h].dev].sent)
          /\ piHandlers[h].kind = "bin"
          /\ piHandlers[h].pc = "done" )
        => PairedWithOwnMetadata(h)

----------------------------------------------------------------------------
(* C3.  A buffered metadata message is consumed by at most one binary      *)
(* message: a binary message that follows another binary message with no   *)
(* metadata message between them is discarded and yields no Frame, also    *)
(* when it arrives while the first one's enrichment is in flight.          *)
C3_SecondBinaryDiscarded ==
    \A h \in DOMAIN piHandlers :
        LET sent == pi[piHandlers[h].dev].sent
            no == piHandlers[h].no
        IN  ( /\ piHandlers[h].kind = "bin"
              /\ no > 1 /\ sent[no - 1] = "bin" )
            => /\ EventsOf(PiSrc(h)) = {}
               /\ piHandlers[h].pc = "done" /\ piHandlers[h].out = "noMetadata"

----------------------------------------------------------------------------
----------------------------------------------------------------------------
(* C5.  For every bus message the raw record is written before the payload *)
(* is parsed or validated: a handler that has called JSON.parse or the     *)
(* schema has a raw record of its message, so a message that fails parsing *)
(* or validation has one.                                                  *)
C5_RawBeforeParse ==
    \A m \in DOMAIN bus :
        ( \/ "parse" \in Range(bus[m].trace)
          \/ "validated" \in Range(bus[m].trace)
          \/ bus[m].err \in {"SyntaxError", "ZodError"} )
        => \E i \in RawOf(m) : rawLog[i].payload = bus[m].text

\* a message that failed parsing and one that failed validation have both
\* been handled, and their records are there
C5_Witness ==
    \E a, b \in DOMAIN bus :
        /\ bus[a].err = "SyntaxError" /\ bus[a].pc = "done"
        /\ bus[b].err = "ZodError" /\ bus[b].pc = "done"
        /\ RawOf(a) # {} /\ RawOf(b) # {}

----------------------------------------------------------------------------
(* C6.  When the processing of a bus message fails at parsing, validation, *)
(* enrichment or persistence, the message is marked failed with the reason *)
(* in the raw message log, and no step is retried.                         *)

StepFailures ==
    {"SyntaxError", "fram_id and cam_id are required in frame message", "ZodError",
     "Camera info not available and API call failed",
     "No camera token available and camera_info not in payload", "saveFrame failed"}

NoStepTwice(trace) == \A i, j \in DOMAIN trace : trace[i] = trace[j] => i = j

C6_FailureIsMarkedFailed ==
    \A m \in DOMAIN bus :
        /\ NoStepTwice(bus[m].trace)
        /\ (Finished(bus[m]) /\ bus[m].err \in StepFailures)
              => \E i \in RawOf(m) :
                    rawLog[i].outcome = "failed" /\ rawLog[i].error = bus[m].err

----------------------------------------------------------------------------
(* C7.  Each successfully processed bus message causes exactly one         *)
(* broadcast event, and that event equals the validated Frame: the frame   *)
(* and camera identifiers of the input, and the input's objects in the     *)
(* same order and number with their numeric fields as numbers.  No message *)
(* causes more than one event.                                             *)

EventMatchesInput(event, doc) ==
    /\ event.fram_id = doc.fram_id.s
    /\ event.cam_id = doc.cam_id.s
    /\ Len(event.objects) = Len(doc.objects[1])
    /\ \A k \in DOMAIN doc.objects[1] :
          /\ event.objects[k].obj_id = doc.objects[1][k].obj_id.s
          /\ event.objects[k].lat = Expected(doc.objects[1][k].lat)
          /\ event.objects[k].lng = Expected(doc.objects[1][k].lng)
          /\ event.objects[k].alt = Expected(doc.objects[1][k].alt)
          /\ event.objects[k].speed_kt = Expected(doc.objects[1][k].speed_kt)

C7_OneEventEqualToFrame ==
    \A m \in DOMAIN bus :
        /\ Cardinality(EventsOf(BusSrc(m))) <= 1
        /\ "rawOk" \in Range(bus[m].trace)
              => /\ Cardinality(EventsOf(BusSrc(m))) = 1
                 /\ \A i \in EventsOf(BusSrc(m)) :
                       EventMatchesInput(broadcasts[i].payload, JSONparse(bus[m].text).doc)

\* a message with two objects, numeric strings among their fields, has been
\* processed to the end
C7_Witness ==
    \E m \in DOMAIN bus :
        /\ bus[m].pc = "done" /\ "rawOk" \in Range(bus[m].trace)
        /\ Len(JSONparse(bus[m].text).doc.objects[1]) = 2
        /\ \E i \in EventsOf(BusSrc(m)) : broadcasts[i].payload.objects[1].lat = 13

----------------------------------------------------------------------------
----------------------------------------------------------------------------
(* C9.  No failure during the handling of a bus message or of a device     *)
(* message escapes the handler: the promise of every handler resolves.     *)
C9_NoUncaughtFailure ==
    /\ \A m \in DOMAIN bus : bus[m].pc # "rejected"
    /\ \A h \in DOMAIN piHandlers : piHandlers[h].pc # "rejected"

----------------------------------------------------------------------------
(* C10.  If sending to one member fails during a broadcast, that member is *)
(* removed from the membership set, and every other member whose socket is *)
(* open still receives the event.                                          *)
C10_FailedSendRemovesMember ==
    \A n \in DOMAIN broadcasts, w \in Viewers :
        <<w, n>> \in failedSends
        => /\ w \notin viewerClients
           /\ \A u \in broadcasts[n].open \ {w} :
                 <<u, n>> \notin failedSends => n \in Range(received[u])

----------------------------------------------------------------------------
(* C11.  A broadcast call sends the event exactly once to every viewer     *)
(* that is a member when the call is made; unregistering one member while  *)
(* the broadcast is running neither prevents delivery to the remaining     *)
(* members nor raises an error.                                            *)

Count(seq, x) == Cardinality({i \in DOMAIN seq : seq[i] = x})

\* the sends of broadcast n to w: those that returned and the one that threw
Attempts(w, n) == Count(received[w], n) + (IF <<w, n>> \in failedSends THEN 1 ELSE 0)

\* broadcast call n has returned
Returned(n) == sending = <<>> \/ sending[1].n # n

\* As stated, for every viewer that was a member at the call and has not
\* been unregistered since.
C11_EveryMemberSentOnce ==
    \A n \in DOMAIN broadcasts :
        Returned(n) =>
            \A w \in broadcasts[n].members \cap viewerClients : Attempts(w, n) = 1

(* C11, amended.  A broadcast call sends the event exactly once to every   *)
(* member whose socket is open, and never twice to anyone; a member whose  *)
(* socket has left OPEN is skipped although it is still in the set.        *)
(* Unregistering one member while the loop runs does not keep the loop     *)
(* from sending to the members that remain, and the call returns.          *)
C11_OpenMembersSentOnce ==
    \A n \in DOMAIN broadcasts :
        /\ \A w \in Viewers : Attempts(w, n) <= 1
        /\ \A w \in Viewers : Attempts(w, n) = 1 => readyState[w] # "NONE"
        /\ Returned(n) =>
              \A w \in broadcasts[n].members :
                  (w \in viewerClients /\ readyState[w] = "OPEN") => Attempts(w, n) = 1

\* three members at the call; one was unregistered before its turn, the
\* other two got the event, and the call has returned
C11_Witness ==
    \E n \in DOMAIN broadcasts, w \in Viewers :
        /\ Returned(n)
        /\ broadcasts[n].open = Viewers
        /\ readyState[w] = "CLOSED" /\ w \notin viewerClients /\ Attempts(w, n) = 0
        /\ \A u \in Viewers \ {w} : Count(received[u], n) = 1

----------------------------------------------------------------------------
(* C12.  Once a viewer connection has closed it is no longer a member of   *)
(* the hub, and no broadcast made after the close sends to it: from the    *)
(* close on, nothing is added to what was sent to it.                      *)

C12_ClosedViewerIsNoMember ==
    /\ [](\A w \in Viewers : readyState[w] = "CLOSED" => w \notin viewerClients)
    /\ [][\A w \in Viewers :
             readyState[w] = "CLOSED"
             => /\ received'[w] = received[w]
                /\ \A n \in DOMAIN broadcasts' :
                      <<w, n>> \in failedSends' => <<w, n>> \in failedSends]_vars

\* a viewer got the first broadcast, closed, and the second broadcast was
\* made to a smaller membership set that still had a member
C12_Witness ==
    \E w \in Viewers :
        /\ Len(broadcasts) = 2
        /\ readyState[w] = "CLOSED"
        /\ w \in broadcasts[1].members /\ Count(received[w], 1) = 1
        /\ w \notin broadcasts[2].members /\ Attempts(w, 2) = 0
        /\ broadcasts[2].members # {}
        /\ broadcasts[2].members \subseteq broadcasts[1].members

----------------------------------------------------------------------------
(* C13.  A device session that receives a binary message while no metadata *)
(* is buffered, in particular before any metadata message, produces no     *)
(* Frame, makes no enrichment call and broadcasts nothing for that binary: *)
(* its handler ends at once with the warning.                              *)

Last(seq) == seq[Len(seq)]

C13_BinaryWithoutMetadata ==
    /\ [][\A d \in Devices :
             ( /\ pi[d].pendingMetadata = <<>>
               /\ Len(pi'[d].sent) = Len(pi[d].sent) + 1
               /\ Last(pi'[d].sent) = "bin" )
             => /\ broadcasts' = broadcasts
                /\ Last(piHandlers').dev = d
                /\ Last(piHandlers').pc = "done"
                /\ Last(piHandlers').out = "noMetadata"]_vars
    /\ [](\A h \in DOMAIN piHandlers :
             piHandlers[h].out = "noMetadata"
             => /\ piHandlers[h].pc = "done"
                /\ piHandlers[h].cameraInfo = <<>>
                /\ EventsOf(PiSrc(h)) = {})

\* a binary message came first in its session and was dropped, and one
\* that came after the metadata had been used up was dropped as well
C13_Witness ==
    /\ \E h \in DOMAIN piHandlers :
          /\ piHandlers[h].kind = "bin" /\ piHandlers[h].no = 1
          /\ piHandlers[h].out = "noMetadata"
    /\ \E h \in DOMAIN piHandlers :
          /\ piHandlers[h].kind = "bin" /\ piHandlers[h].no > 2
          /\ piHandlers[h].out = "noMetadata"
          /\ "meta" \in Range(pi[piHandlers[h].dev].sent)

----------------------------------------------------------------------------
(* C14.  A device session buffers at most one unpaired metadata message    *)
(* and a new valid metadata message overwrites the buffered one: for the   *)
(* sequence M1,M2,B exactly one Frame is produced and it carries M2's      *)
(* metadata only.                                                          *)
(* In server.ts pendingMetadata is assigned after an await, so B can be    *)
(* handled before M2, or M1, has been buffered.                            *)
C14_LastMetadataWins ==
    \A h \in DOMAIN piHandlers :
        LET d == piHandlers[h].dev IN
        ( /\ piHandlers[h].kind = "bin" /\ piHandlers[h].no = 3
          /\ pi[d].sent[1] = "meta" /\ pi[d].sent[2] = "meta"
          /\ \A g \in DOMAIN piHandlers :
                (piHandlers[g].dev = d /\ piHandlers[g].no <= 3)
                   => piHandlers[g].pc = "done" )
        => /\ Cardinality(EventsOf(PiSrc(h))) = 1
           /\ \A i \in EventsOf(PiSrc(h)) :
                 /\ broadcasts[i].payload.meta.spread # <<>>
                 /\ broadcasts[i].payload.meta.spread[1].fram_id = "2"

----------------------------------------------------------------------------
(* C15.  Device sessions do not share pendingMetadata: with two sessions   *)
(* side by side, a binary message of one session is never paired with      *)
(* metadata received on the other, and a message handled on one session    *)
(* never overwrites or clears the buffer of the other.                     *)

\* the handlers of session d that took a step
Stepped(d) ==
    {h \in DOMAIN piHandlers' :
        /\ piHandlers'[h].dev = d
        /\ (h \notin DOMAIN piHandlers \/ piHandlers'[h] # piHandlers[h])}

C15_SessionsShareNoMetadata ==
    /\ [](/\ \A d \in Devices :
                pi[d].pendingMetadata # <<>>
                => pi[d].pendingMetadata[1].cam_id = CamOf(d)
          /\ \A h \in DOMAIN piHandlers :
                /\ piHandlers[h].metadata # <<>>
                      => piHandlers[h].metadata[1].cam_id = CamOf(piHandlers[h].dev)
                /\ \A i \in EventsOf(PiSrc(h)) :
                      broadcasts[i].payload.meta.spread # <<>>
                      => broadcasts[i].payload.meta.spread[1].cam_id
                            = CamOf(piHandlers[h].dev))
    /\ [][\A d \in Devices :
             pi'[d].pendingMetadata # pi[d].pendingMetadata => Stepped(d) # {}]_vars

\* both sessions have buffered metadata; the binary message of one was
\* paired with the metadata of its own session while the buffer of the
\* other still holds the other's metadata
C15_Witness ==
    \E h \in DOMAIN piHandlers, e \in Devices :
        /\ piHandlers[h].kind = "bin" /\ piHandlers[h].out = "frame"
        /\ e # piHandlers[h].dev
        /\ \E i \in EventsOf(PiSrc(h)) :
              /\ broadcasts[i].payload.meta.spread # <<>>
              /\ broadcasts[i].payload.meta.spread[1].cam_id = CamOf(piHandlers[h].dev)
        /\ pi[e].pendingMetadata # <<>>
        /\ pi[e].pendingMetadata[1].cam_id = CamOf(e)
        /\ pi[piHandlers[h].dev].pendingMetadata = <<>>

----------------------------------------------------------------------------
(* C16.  On the bus path, when the enrichment call fails and the payload   *)
(* carries no embedded camera info, the Frame is rejected: nothing is      *)
(* persisted, nothing is broadcast, and the raw message is marked failed   *)
(* with the enrichment failure as reason.                                  *)
(* The failure write of the catch block can itself fail (C9), and then the *)
(* record stays pending.                                                   *)
C16_EnrichmentFailureRejects ==
    \A m \in DOMAIN bus :
        ( /\ "enrichFailed" \in Range(bus[m].trace)
          /\ ~HasEmbeddedInfo(JSONparse(bus[m].text).doc) )
        => /\ FramesOf(BusSrc(m)) = {} /\ EventsOf(BusSrc(m)) = {}
           /\ bus[m].err = "Camera info not available and API call failed"
           /\ Finished(bus[m])
                 => \E i \in RawOf(m) :
                       /\ rawLog[i].outcome = "failed"
                       /\ rawLog[i].error = "Camera info not available and API call failed"

----------------------------------------------------------------------------
(* C17.  On the bus path, when the enrichment call fails and the payload   *)
(* already carries an embedded camera info, processing goes on with the    *)
(* embedded value: the message is not rejected for the enrichment failure, *)
(* the Frame that is validated, persisted and broadcast carries the        *)
(* embedded camera info, and when the Store calls succeed the raw message  *)
(* is marked ok.                                                           *)

C17_EmbeddedInfoOnEnrichmentFailure ==
    \A m \in DOMAIN bus :
        ( /\ "enrichFailed" \in Range(bus[m].trace)
          /\ HasEmbeddedInfo(JSONparse(bus[m].text).doc) )
        => /\ "validated" \in Range(bus[m].trace)
           /\ bus[m].err \in {"", "saveFrame failed", "saveRaw failed"}
           /\ bus[m].frame # <<>>
           /\ bus[m].frame[1].token_id.camera_info = EmbeddedInfo
           /\ \A j \in FramesOf(BusSrc(m)) :
                 /\ frames[j].data.cameraName = EmbeddedInfo.name
                 /\ frames[j].data.cameraSort = EmbeddedInfo.sort
                 /\ frames[j].data.cameraLocation = EmbeddedInfo.location
                 /\ frames[j].data.cameraInstitute = EmbeddedInfo.institute
           /\ \A i \in EventsOf(BusSrc(m)) :
                 broadcasts[i].payload.token_id.camera_info = EmbeddedInfo
           /\ (bus[m].pc = "done" /\ bus[m].err = "")
                 => /\ Cardinality(FramesOf(BusSrc(m))) = 1
                    /\ Cardinality(EventsOf(BusSrc(m))) = 1
                    /\ \E i \in RawOf(m) : rawLog[i].outcome = "ok"

\* the enrichment call of a message with embedded camera info failed, and
\* the message was processed to the end
C17_Witness ==
    \E m \in DOMAIN bus :
        /\ "enrichFailed" \in Range(bus[m].trace)
        /\ HasEmbeddedInfo(JSONparse(bus[m].text).doc)
        /\ bus[m].pc = "done" /\ "rawOk" \in Range(bus[m].trace)
        /\ \E i \in EventsOf(BusSrc(m)) :
              broadcasts[i].payload.token_id.camera_info = EmbeddedInfo

----------------------------------------------------------------------------
(* C18.  In a device session with cameraId and credential both present,    *)
(* when a binary message is paired with buffered metadata: if enrichment   *)
(* succeeds the resolved camera info replaces the embedded one in the      *)
(* Frame; if it fails the embedded camera info is kept when present, and   *)
(* when none is present no event is broadcast.                             *)
(* In server.ts a second binary message can pass the test on the metadata  *)
(* the first one is still using (C3); its payload is then built from a     *)
(* pendingMetadata that is null, and is broadcast with no camera info.     *)
C18_DeviceCameraInfo ==
    \A h \in DOMAIN piHandlers :
        ( /\ piHandlers[h].kind = "bin"
          /\ pi[piHandlers[h].dev].creds
          /\ piHandlers[h].pc = "done" )
        => \A i \in EventsOf(PiSrc(h)) :
              LET meta == broadcasts[i].payload.meta IN
              IF piHandlers[h].cameraInfo # <<>>
              THEN meta.token_id = <<PiCameraInfo>>
              ELSE /\ meta.spread # <<>>
                   /\ MetaFields(meta).token_id.camera_info = EmbeddedInfo

----------------------------------------------------------------------------
(* C19.  reprocess fails with NotFound (404, "raw not found") when no raw  *)
(* message has the given identifier, and with MalformedRaw (400, "invalid  *)
(* raw json") when the record exists but its payload is not valid JSON; in *)
(* both cases nothing is validated and nothing is persisted.               *)

\* the lookup of request r has returned in this step
LookedUp(r) == admin[r].pc = "getRaw" /\ admin'[r].pc # "getRaw" /\ admin'[r].code # 500

C19_NotFoundAndMalformedRaw ==
    /\ [][\A r \in DOMAIN admin :
             LET raw == getRawById(rawLog, admin[r].rawId) IN
             /\ (LookedUp(r) /\ raw = <<>>)
                   => /\ admin'[r].pc = "replied" /\ admin'[r].code = 404
                      /\ admin'[r].error = "raw not found"
                      /\ frames' = frames
             /\ (LookedUp(r) /\ raw # <<>> /\ raw[1].payload = "notJson")
                   => /\ admin'[r].pc = "replied" /\ admin'[r].code = 400
                      /\ admin'[r].error = "invalid raw json"
                      /\ frames' = frames]_vars
    /\ [](\A r \in DOMAIN admin :
             admin[r].error \in {"raw not found", "invalid raw json"}
             => /\ admin[r].pc = "replied"
                /\ admin[r].frame = <<>>
                /\ FramesOf(AdminSrc(r)) = {})

\* one request was answered NotFound and one MalformedRaw
C19_Witness ==
    \E r, q \in DOMAIN admin :
        /\ admin[r].code = 404 /\ admin[r].error = "raw not found"
        /\ admin[q].code = 400 /\ admin[q].error = "invalid raw json"
        /\ admin[q].rawId \in DOMAIN rawLog
        /\ rawLog[admin[q].rawId].payload = "notJson"

----------------------------------------------------------------------------
(* C20.  When the patched document fails validation, reprocess returns a   *)
(* validation error (400 with the schema's message) and no stored state    *)
(* changes: no Frame is persisted and the raw message log is as it was.    *)
C20_ValidationErrorChangesNothing ==
    /\ [][\A r \in DOMAIN admin :
             LET raw == getRawById(rawLog, admin[r].rawId) IN
             /\ ( /\ LookedUp(r) /\ raw # <<>>
                  /\ JSONparse(raw[1].payload).wellFormed
                  /\ ~frameSchemaOk(Patched(JSONparse(raw[1].payload).doc,
                                            Patch(admin[r].patch))) )
                   => /\ admin'[r].pc = "replied" /\ admin'[r].code = 400
                      /\ admin'[r].error = "ZodError"
                      /\ frames' = frames /\ rawLog' = rawLog
                      /\ broadcasts' = broadcasts
             /\ admin'[r] # admin[r] => rawLog' = rawLog]_vars
    /\ [](\A r \in DOMAIN admin :
             admin[r].error = "ZodError"
             => /\ admin[r].pc = "replied" /\ admin[r].code = 400
                /\ admin[r].frame = <<>>
                /\ FramesOf(AdminSrc(r)) = {})

\* a patch broke a payload that is valid as logged: the request was
\* answered with the validation error and nothing is stored, while the
\* same record without a patch has passed validation
C20_Witness ==
    \E r, q \in DOMAIN admin :
        /\ admin[r].error = "ZodError" /\ admin[r].patch = "break"
        /\ admin[r].rawId \in DOMAIN rawLog
        /\ rawLog[admin[r].rawId].payload = "embedded"
        /\ admin[q].rawId = admin[r].rawId /\ admin[q].patch = "none"
        /\ admin[q].pc = "saveFrame"
        /\ frames = <<>>

----------------------------------------------------------------------------
(* C21.  The document reprocess validates is the parsed raw JSON with      *)
(* every top-level key of the patch replaced by the patch's value: a key   *)
(* the patch does not have keeps the raw value, and a nested structure     *)
(* under a patched key is replaced as a whole, never merged.               *)

DocKeys == {"fram_id", "cam_id", "token_id", "timestamp", "image_info", "objects"}

C21_ShallowOverwrite ==
    \A r \in DOMAIN admin :
        admin[r].patched # <<>>
        => LET raw == JSONparse(rawLog[admin[r].rawId].payload).doc
               patch == Patch(admin[r].patch)
               doc == admin[r].patched[1]
           IN  /\ \A k \in DocKeys :
                     doc[k] = IF k \in patch.keys THEN patch.set[k] ELSE raw[k]
               /\ admin[r].error = "ZodError" => ~frameSchemaOk(doc)
               /\ admin[r].frame # <<>>
                     => frameSchemaOk(doc) /\ admin[r].frame[1] = frameSchemaParse(doc)

\* On one raw document with two objects and a 640x480 image: a patch of
\* token_id and objects left one object, with the raw frame id and image;
\* a patch of image_info to an object without a height failed validation,
\* the raw height not being kept.
C21_Witness ==
    \E r, q \in DOMAIN admin :
        /\ admin[r].rawId = admin[q].rawId
        /\ admin[r].patch = "fix" /\ admin[r].frame # <<>>
        /\ Len(JSONparse(rawLog[admin[r].rawId].payload).doc.objects[1]) = 2
        /\ Len(admin[r].frame[1].objects) = 1
        /\ admin[r].frame[1].fram_id = "1"
        /\ admin[r].frame[1].image_info = [width |-> 640, height |-> 480]
        /\ admin[q].patch = "break" /\ admin[q].error = "ZodError"
        /\ admin[q].patched[1].image_info = <<[width |-> Num(800), height |-> Absent]>>

----------------------------------------------------------------------------
(* C22.  A successful reprocess persists exactly one Frame through         *)
(* saveFrame, the persistence call of the ingest paths, returns the        *)
(* storage identifier of that Frame, and sends no event to any viewer: the *)
(* route never calls broadcast.                                            *)
C22_ReprocessPersistsOnce ==
    /\ \A r \in DOMAIN admin :
          /\ EventsOf(AdminSrc(r)) = {}
          /\ admin[r].code # 200 => FramesOf(AdminSrc(r)) = {}
          /\ admin[r].code = 200
                => /\ Cardinality(FramesOf(AdminSrc(r))) = 1
                   /\ \A j \in FramesOf(AdminSrc(r)) :
                         /\ frames[j].id = admin[r].id
                         /\ frames[j].data = SaveFrameParams(admin[r].frame[1])
    /\ \A i \in DOMAIN broadcasts : broadcasts[i].src.path # "admin"
    /\ \A w \in Viewers : received[w] = <<>>

\* a request was answered 200 with the identifier of the one row it stored
C22_Witness ==
    \E r \in DOMAIN admin :
        /\ admin[r].code = 200 /\ admin[r].pc = "replied"
        /\ \E j \in DOMAIN frames :
              /\ frames[j].src = AdminSrc(r) /\ frames[j].id = admin[r].id
              /\ frames[j].data.framId = admin[r].frame[1].fram_id
        /\ broadcasts = <<>>

----------------------------------------------------------------------------
\* C23: frames are never deduplicated. Every saveFrame that returns adds a
\* row of its own with an identifier no other row has, whatever the rows
\* already stored hold: each bus message that was persisted has its row,
\* each reprocess request that was replied 200 has the row whose identifier
\* it replied, two such requests never reply the same identifier, and the
\* Store holds as many rows as there were successful saves.
C23_NoDeduplication ==
    /\ \A j \in DOMAIN frames : frames[j].id = j
    /\ \A m \in DOMAIN bus :
          Cardinality(FramesOf(BusSrc(m))) = Count(bus[m].trace, "persisted")
    /\ \A r \in DOMAIN admin :
          admin[r].code = 200
             => /\ Cardinality(FramesOf(AdminSrc(r))) = 1
                /\ \A j \in FramesOf(AdminSrc(r)) : frames[j].id = admin[r].id
    /\ \A r1, r2 \in DOMAIN admin :
          r1 # r2 /\ admin[r1].code = 200 /\ admin[r2].code = 200
             => admin[r1].id # admin[r2].id
    /\ Len(frames) = Cardinality({m \in DOMAIN bus : Count(bus[m].trace, "persisted") = 1})
                     + Cardinality({r \in DOMAIN admin : admin[r].code = 200})

\* the same raw record reprocessed twice with the same patch: two rows with
\* equal data and different identifiers, next to the row of the bus message
C23_Witness ==
    \E r1, r2 \in DOMAIN admin :
        /\ r1 # r2
        /\ admin[r1].rawId = admin[r2].rawId /\ admin[r1].patch = admin[r2].patch
        /\ admin[r1].code = 200 /\ admin[r2].code = 200
        /\ admin[r1].id # admin[r2].id
        /\ frames[admin[r1].id].data = frames[admin[r2].id].data
        /\ \E m \in DOMAIN bus :
              /\ bus[m].pc = "done"
              /\ \E j \in FramesOf(BusSrc(m)) :
                    frames[j].data.framId = frames[admin[r1].id].data.framId

\* two bus messages with the same payload, each with a row of its own
C23_WitnessBus ==
    \E m1, m2 \in DOMAIN bus :
        /\ m1 # m2 /\ bus[m1].text = bus[m2].text
        /\ \E j1 \in FramesOf(BusSrc(m1)), j2 \in FramesOf(BusSrc(m2)) :
              frames[j1].data = frames[j2].data /\ frames[j1].id # frames[j2].id

----------------------------------------------------------------------------
\* a JSON number, or a string that is a number from its first character to
\* its last
IsNumeric(v) ==
    \/ v.t = "num"
    \/ v.t = "str" /\ v.s # <<>> /\ \A i \in DOMAIN v.s : v.s[i] \in Digits

NumericFieldsOk(doc) ==
    \A i \in DOMAIN doc.objects[1] :
        LET o == doc.objects[1][i]
        IN  IsNumeric(o.lat) /\ IsNumeric(o.lng) /\ IsNumeric(o.alt) /\ IsNumeric(o.speed_kt)

\* C24: a payload in which lat, lng, altitude or speed of an object is
\* neither a JSON number nor a numeric string fails validation, and nothing
\* is persisted or broadcast for it.
C24_NonNumericFieldFails ==
    \A m \in DOMAIN bus :
        LET p == JSONparse(bus[m].text)
        IN  p.wellFormed /\ p.doc.objects # <<>> /\ ~NumericFieldsOk(p.doc)
               => /\ Count(bus[m].trace, "validated") = 0
                  /\ FramesOf(BusSrc(m)) = {}
                  /\ EventsOf(BusSrc(m)) = {}

\* what the code does keep: a field from which parseFloat reads no number
\* fails validation
C24_NoLeadingNumberFails ==
    \A m \in DOMAIN bus :
        LET p == JSONparse(bus[m].text)
        IN  (/\ p.wellFormed /\ p.doc.objects # <<>>
             /\ \E i \in DOMAIN p.doc.objects[1] : ~ObjectOk(p.doc.objects[1][i]))
               => /\ Count(bus[m].trace, "validated") = 0
                  /\ FramesOf(BusSrc(m)) = {}
                  /\ EventsOf(BusSrc(m)) = {}

----------------------------------------------------------------------------
\* C25: the validator takes image_info for optional: a device metadata
\* message that has no image_info and is valid otherwise is accepted and
\* becomes the session's pendingMetadata.
C25_MetadataWithoutImageInfoIsBuffered ==
    \A h \in DOMAIN piHandlers :
        LET doc == piHandlers[h].data.json.doc
        IN  (/\ piHandlers[h].kind = "badmeta" /\ piHandlers[h].pc = "done"
             /\ frameSchemaOk([doc EXCEPT !.image_info = Image640]))
            => /\ piHandlers[h].out = "buffered"
               /\ pi[piHandlers[h].dev].state = "open"
                     => pi[piHandlers[h].dev].pendingMetadata # <<>>

----------------------------------------------------------------------------
\* C26: no connection is both a viewer and a device. A socket that is, or
\* has been, a member of the Hub has no device session and none of its
\* messages is handled; a socket with a device session is no member of the
\* Hub, was a member at no broadcast, and has received no event.
C26_ViewerOrDevice ==
    \A c \in Connections :
        /\ ~(c \in viewerClients /\ pi[c].state # "none")
        /\ readyState[c] # "NONE"
              => /\ pi[c].state = "none" /\ pi[c].pendingMetadata = <<>>
                 /\ \A h \in DOMAIN piHandlers : piHandlers[h].dev # c
        /\ pi[c].state # "none"
              => /\ c \notin viewerClients
                 /\ received[c] = <<>>
                 /\ \A i \in DOMAIN broadcasts : c \notin broadcasts[i].members
                 /\ \A n \in DOMAIN broadcasts : <<c, n>> \notin failedSends

\* a viewer that has sent a metadata message and an image, next to the
\* device whose frame it has received
C26_Witness ==
    \E c, d \in Connections :
        /\ c \in viewerClients /\ pi[c].sent = <<"meta", "bin">>
        /\ pi[d].state = "open"
        /\ \E h \in DOMAIN piHandlers :
              /\ piHandlers[h].dev = d /\ piHandlers[h].out = "frame"
        /\ received[c] # <<>> /\ received[d] = <<>>

----------------------------------------------------------------------------
\* C27: unregister is idempotent. When both close listeners of a viewer
\* have run, the second on a socket the first has already removed, the
\* membership set is what one removal leaves: the closed socket is out, and
\* every socket that is open or closing is still a member.
C27_UnregisterIdempotent ==
    /\ viewerClients = {w \in Viewers : readyState[w] \in {"OPEN", "CLOSING"}}
    /\ \A w \in Viewers :
          unregister(unregister(viewerClients, w), w) = unregister(viewerClients, w)

\* one viewer has closed, both listeners have run, and the two others are
\* members still
C27_Witness ==
    \E w \in Viewers :
        /\ readyState[w] = "CLOSED"
        /\ w \notin viewerClients
        /\ viewerClients = Viewers \ {w}
        /\ \E v \in viewerClients : readyState[v] = "OPEN"

----------------------------------------------------------------------------
\* C28: an event carries a base64 image if and only if a device session
\* made it. Every event of a device session carries the image of the binary
\* message whose handler broadcast it, and no event of the bus handler has
\* an image field.
C28_ImageIffDeviceEvent ==
    \A i \in DOMAIN broadcasts :
        LET b == broadcasts[i]
        IN  /\ "image_jpeg_base64" \in DOMAIN b.payload <=> b.src.path = "pi"
            /\ b.src.path = "bus" => "image_jpeg_base64" \notin DOMAIN b.payload
            /\ b.src.path = "pi"
                  => /\ piHandlers[b.src.id].kind = "bin"
                     /\ b.payload.kind = "frame"
                     /\ b.payload.image_jpeg_base64
                           = [base64 |-> piHandlers[b.src.id].data.image]
                     /\ piHandlers[b.src.id].data.image = piHandlers[b.src.id].no

\* a viewer that has received the event of a device session, with the image
\* of the binary message that completed the frame
C28_Witness ==
    \E w \in Viewers :
        \E j \in DOMAIN broadcasts :
            /\ Count(received[w], j) = 1
            /\ broadcasts[j].src.path = "pi"
            /\ piHandlers[broadcasts[j].src.id].out = "frame"
            /\ broadcasts[j].payload.meta.spread # <<>>
            /\ broadcasts[j].payload.image_jpeg_base64.base64 = 2

\* a viewer that has received the event of a bus message, which has the
\* frame's fields and no image
C28_WitnessBus ==
    \E w \in Viewers :
        \E i \in DOMAIN broadcasts :
            /\ Count(received[w], i) = 1
            /\ broadcasts[i].src.path = "bus"
            /\ DOMAIN broadcasts[i].payload
                  = {"fram_id", "cam_id", "token_id", "timestamp", "image_info", "objects"}

----------------------------------------------------------------------------
\* what a handler has done with its message: the JSON branch parses it and
\* ends with metadata buffered or with an error; the binary branch ends
\* with the warning for missing metadata or goes on to build a frame
HandledAsJson(h) ==
    h.pc = "importSchema" \/ h.out \in {"buffered", "error"}

HandledAsBinary(h) ==
    h.pc \in {"axios", "importHub", "fetch"}
       \/ h.out \in {"noMetadata", "frame", "frameThenError"}

\* C29: a device message is handled as JSON metadata exactly when its first
\* byte is '{' (0x7B) or '"' (0x22); every other message, one of length 0
\* included, is handled as binary image data.
C29_JsonIffFirstByte ==
    \A h \in DOMAIN piHandlers :
        LET first == piHandlers[h].data.first
        IN  /\ HandledAsJson(piHandlers[h]) <=> first \in {123, 34}
            /\ HandledAsBinary(piHandlers[h]) <=> first \notin {123, 34}
            /\ piHandlers[h].kind = "empty" => HandledAsBinary(piHandlers[h])

\* after a metadata message, a message of length 0 has completed a frame,
\* and a message that starts with '"' has ended in the JSON branch's error
C29_Witness ==
    \E h1, h2, h3 \in DOMAIN piHandlers :
        /\ piHandlers[h1].kind = "meta" /\ piHandlers[h1].out = "buffered"
        /\ piHandlers[h2].kind = "empty" /\ piHandlers[h2].out = "frame"
        /\ piHandlers[h2].data.first = NoByte
        /\ piHandlers[h3].kind = "garbage" /\ piHandlers[h3].out = "error"
        /\ piHandlers[h3].data.first = 34

\* a JSON text behind a space has been taken for an image
C29_WitnessSpaced ==
    \E h \in DOMAIN piHandlers :
        /\ piHandlers[h].kind = "spaced" /\ piHandlers[h].data.json.wellFormed
        /\ piHandlers[h].out \in {"noMetadata", "frame"}

----------------------------------------------------------------------------
\* the handler has parsed a payload that has its ids and for which a token
\* is at hand: the frame has reached enrichment
ReachesEnrichment(h) ==
    LET p == JSONparse(h.text)
    IN  /\ Count(h.trace, "parse") = 1
        /\ p.wellFormed /\ Truthy(p.doc.fram_id) /\ Truthy(p.doc.cam_id)
        /\ TokenFor(p.doc, CAMERA_TOKEN) # ""

\* C30: each frame that reaches enrichment causes exactly one call to the
\* metadata provider. The call has at most one result, a failed call is not
\* followed by another, and a later frame of the same camera makes a call
\* of its own whatever the earlier ones returned; a frame that does not
\* reach enrichment makes none.
C30_OneProviderCallPerFrame ==
    \A m \in DOMAIN bus :
        LET h == bus[m]
            results == Count(h.trace, "enriched") + Count(h.trace, "enrichFailed")
        IN  /\ Count(h.trace, "enrichCall") = IF ReachesEnrichment(h) THEN 1 ELSE 0
            /\ results = IF ReachesEnrichment(h) /\ h.pc # "enrich" THEN 1 ELSE 0

\* two frames of the same camera with the same token: the first call
\* answered and the frame was persisted, the second call failed and its
\* frame was rejected, each after one call
C30_Witness ==
    \E m1, m2 \in DOMAIN bus :
        /\ m1 < m2
        /\ bus[m1].text = "token" /\ bus[m2].text = "token"
        /\ Count(bus[m1].trace, "enrichCall") = 1 /\ Count(bus[m1].trace, "enriched") = 1
        /\ FramesOf(BusSrc(m1)) # {}
        /\ Count(bus[m2].trace, "enrichCall") = 1 /\ Count(bus[m2].trace, "enrichFailed") = 1
        /\ bus[m2].err = "Camera info not available and API call failed"
        /\ FramesOf(BusSrc(m2)) = {}
        /\ ~InFlight(bus[m1]) /\ ~InFlight(bus[m2])

----------------------------------------------------------------------------
\* every a of the sequence comes before every b, and a b has an a before it
Precedes(seq, a, b) ==
    \A j \in DOMAIN seq : seq[j] = b => \E i \in 1..(j - 1) : seq[i] = a

\* C31: each bus message passes its steps in the order raw-logged,
\* validated, enriched, persisted, broadcast, raw-updated(ok): the provider
\* is called only for a payload that has passed validation, a frame is
\* broadcast only after it was persisted, and ok is recorded only after the
\* broadcast.
C31_FixedStepOrder ==
    \A m \in DOMAIN bus :
        LET t == bus[m].trace
        IN  /\ Precedes(t, "rawLogged", "validated")
            /\ Precedes(t, "validated", "enrichCall")
            /\ Precedes(t, "persisted", "broadcast")
            /\ Precedes(t, "broadcast", "rawOk")

\* the order the handler has: raw-logged, parsed, enriched, validated,
\* persisted, broadcast, raw-updated(ok)
C31_EnrichmentBeforeValidation ==
    \A m \in DOMAIN bus :
        LET t == bus[m].trace
        IN  /\ Precedes(t, "rawLogged", "parse")
            /\ Precedes(t, "parse", "enrichCall")
            /\ Precedes(t, "parse", "validated")
            /\ \A i, j \in DOMAIN t : t[i] = "enrichCall" /\ t[j] = "validated" => i < j
            /\ Precedes(t, "validated", "persisted")
            /\ Precedes(t, "persisted", "broadcast")
            /\ Precedes(t, "broadcast", "rawOk")

----------------------------------------------------------------------------
\* the sockets that registered and have not closed since
Registered == {w \in Viewers : readyState[w] \in {"OPEN", "CLOSING"}}

\* C32: under any interleaving of registrations, closes and the turns of
\* broadcast loops, the membership set is the set of sockets that
\* registered and have not closed since, less those removed for a send
\* failure. A step of a broadcast adds no member and removes no member
\* whose send has not failed; a member comes in only by registering and
\* goes out only by closing or for a failed send.
C32_MembershipUnderInterleaving ==
    /\ [](/\ viewerClients \subseteq Registered
          /\ \A w \in Registered \ viewerClients :
                \E n \in DOMAIN broadcasts : <<w, n>> \in failedSends)
    /\ [][/\ (broadcasts' # broadcasts \/ sending' # sending)
                => /\ viewerClients' \subseteq viewerClients
                   /\ \A w \in viewerClients \ viewerClients' :
                         \E n \in DOMAIN broadcasts' :
                             <<w, n>> \in failedSends' \ failedSends
          /\ \A w \in viewerClients' \ viewerClients :
                readyState[w] = "NONE" /\ readyState'[w] = "OPEN"
          /\ \A w \in viewerClients \ viewerClients' :
                \/ readyState'[w] = "CLOSED"
                \/ \E n \in DOMAIN broadcasts' : <<w, n>> \in failedSends' \ failedSends]_vars

\* a broadcast has returned during which one member closed before its turn
\* and another socket registered; a member whose send failed and a member
\* that received the event are members still
C32_Witness ==
    \E n \in DOMAIN broadcasts :
        /\ sending = <<>>
        /\ \E u \in broadcasts[n].members :
              readyState[u] = "CLOSED" /\ u \notin viewerClients /\ Attempts(u, n) = 0
        /\ \E w \in broadcasts[n].members :
              <<w, n>> \in failedSends /\ w \in viewerClients
        /\ \E v \in viewerClients : n \in Range(received[v]) \/ v \notin broadcasts[n].members

----------------------------------------------------------------------------
\* the raw record of message m has its terminal outcome
Terminal(m) ==
    \E i \in DOMAIN rawLog : rawLog[i].msg = m /\ rawLog[i].outcome \in {"ok", "failed"}

\* C33: every received bus message eventually reaches a terminal outcome
\* in the raw log, ok or failed, when every call that its handler awaits
\* settles; none stays pending forever.
C33_EveryMessageTerminal ==
    \A m \in 1..MaxBusMsgs : [](m \in DOMAIN bus => <>Terminal(m))

\* what the fair handler does reach: every handler ends, normally or by the
\* rejection that leaves the catch block
C33_EveryHandlerEnds ==
    \A m \in 1..MaxBusMsgs : [](m \in DOMAIN bus => <>(m \in DOMAIN bus /\ ~InFlight(bus[m])))

----------------------------------------------------------------------------
----------------------------------------------------------------------------
\* the raw record that the trace of bus handler m accounts for
RawWrittenBy(m) ==
    [msg |-> m, topic |-> "drones/frames", payload |-> bus[m].text,
     outcome |-> IF Count(bus[m].trace, "rawOk") = 1 THEN "ok"
                 ELSE IF Count(bus[m].trace, "rawFailed") = 1 THEN "failed"
                 ELSE "pending",
     error |-> IF Count(bus[m].trace, "rawFailed") = 1 THEN bus[m].err ELSE "",
     updates |-> Count(bus[m].trace, "rawOk") + Count(bus[m].trace, "rawFailed")]

\* C35: only the bus handler writes the raw log. Whatever the device
\* session and the reprocess route have done, the log holds one record for
\* each bus message whose first write returned, and each record is what
\* the writes of that message's own handler made it: no record was created
\* or modified by a device message or by a reprocess request, successful
\* or not.
C35_OnlyBusWritesRawLog ==
    /\ Len(rawLog) = Cardinality({m \in DOMAIN bus : Count(bus[m].trace, "rawLogged") = 1})
    /\ \A i \in DOMAIN rawLog :
          /\ rawLog[i].msg \in DOMAIN bus
          /\ rawLog[i] = RawWrittenBy(rawLog[i].msg)
    /\ \A i, j \in DOMAIN rawLog : rawLog[i].msg = rawLog[j].msg => i = j

\* a raw record written once to ok, which a request has reprocessed into a
\* frame while a device message was handled, is as the bus handler left it
C35_Witness ==
    /\ Len(rawLog) = 1 /\ rawLog[1].outcome = "ok" /\ rawLog[1].updates = 1
    /\ \E r \in DOMAIN admin : admin[r].rawId = 1 /\ admin[r].code = 200
    /\ \E h \in DOMAIN piHandlers : piHandlers[h].pc = "done"

\* a request that failed on a record marked failed, and a binary message
\* of a device, have left the record as it was
C35_WitnessFailed ==
    /\ Len(rawLog) = 1 /\ rawLog[1].outcome = "failed" /\ rawLog[1].updates = 1
    /\ \E r \in DOMAIN admin : admin[r].rawId = 1 /\ admin[r].code = 400
    /\ \E h \in DOMAIN piHandlers : piHandlers[h].kind = "bin" /\ piHandlers[h].pc = "done"

----------------------------------------------------------------------------
\* metadata messages that are refused: not JSON, or JSON the schema rejects
FailingKinds == {"badmeta", "garbage"}

\* the messages of d so far: valid metadata, then n - 1 refused ones
MetaThenFailing(d, n) ==
    /\ n >= 2 /\ Len(pi[d].sent) >= n
    /\ pi[d].sent[1] = "meta"
    /\ \A i \in 2..n : pi[d].sent[i] \in FailingKinds

\* the handler of message number n of d
HandlerOf(d, n) == CHOOSE h \in DOMAIN piHandlers :
                      piHandlers[h].dev = d /\ piHandlers[h].no = n

FirstMetadata(d) == <<frameSchemaParse(PiData(d, "meta", 1).json.doc)>>

\* C36: a metadata message that is not JSON or that the schema refuses
\* leaves pendingMetadata as it was.  The step that ends its handler in the
\* catch does not change pendingMetadata; metadata buffered before the
\* refused messages is still buffered after them; a binary message that
\* arrives next is not discarded, and the frame it completes carries the
\* metadata buffered before the refused messages.
C36_FailedMetadataLeavesBuffer ==
    /\ [][\A h \in DOMAIN piHandlers' :
             ( /\ piHandlers'[h].kind \in FailingKinds
               /\ piHandlers'[h].out = "error"
               /\ (h \notin DOMAIN piHandlers \/ piHandlers[h].out # "error") )
             => pi'[piHandlers'[h].dev].pendingMetadata
                   = pi[piHandlers'[h].dev].pendingMetadata]_vars
    /\ [][\A d \in Devices, n \in 2..MaxPiMsgs :
             ( /\ MetaThenFailing(d, n) /\ Len(pi[d].sent) = n
               /\ pi[d].pendingMetadata # <<>>
               /\ pi'[d].sent = Append(pi[d].sent, "bin") )
             => Last(piHandlers').out \in {"none", "frame"}]_vars
    /\ [](\A d \in Devices, n \in 2..MaxPiMsgs :
             /\ ( /\ MetaThenFailing(d, n) /\ Len(pi[d].sent) = n
                  /\ piHandlers[HandlerOf(d, 1)].pc = "done" )
                => pi[d].pendingMetadata = FirstMetadata(d)
             /\ ( /\ MetaThenFailing(d, n) /\ Len(pi[d].sent) = n + 1
                  /\ pi[d].sent[n + 1] = "bin" )
                => LET h == HandlerOf(d, n + 1) IN
                   /\ piHandlers[h].out \in {"none", "frame", "noMetadata"}
                   /\ piHandlers[h].out = "frame"
                      => /\ Cardinality(EventsOf(PiSrc(h))) = 1
                         /\ \A e \in EventsOf(PiSrc(h)) :
                               broadcasts[e].payload.meta.spread = FirstMetadata(d))

\* valid metadata, a message the schema refused, a message that is not
\* JSON, then a binary message whose frame carries the first metadata
C36_Witness ==
    \E d \in Devices :
        /\ pi[d].sent = <<"meta", "badmeta", "garbage", "bin">>
        /\ piHandlers[HandlerOf(d, 2)].out = "error"
        /\ piHandlers[HandlerOf(d, 3)].out = "error"
        /\ piHandlers[HandlerOf(d, 4)].out = "frame"
        /\ \E e \in EventsOf(PiSrc(HandlerOf(d, 4))) :
              broadcasts[e].payload.meta.spread = FirstMetadata(d)

----------------------------------------------------------------------------
\* C37: the recorded outcome of a bus message tells what the message did.
\* A message whose raw record is marked failed has no persisted frame and
\* no event; a message whose raw record is marked ok has exactly one
\* persisted frame and exactly one event.
C37_OutcomeMatchesEffects ==
    \A i \in DOMAIN rawLog :
        LET src == BusSrc(rawLog[i].msg) IN
        /\ rawLog[i].outcome = "failed"
              => FramesOf(src) = {} /\ EventsOf(src) = {}
        /\ rawLog[i].outcome = "ok"
              => Cardinality(FramesOf(src)) = 1 /\ Cardinality(EventsOf(src)) = 1

\* the half of C37 that holds: a record marked ok has one frame and one
\* event
C37_OkHasOneFrameOneEvent ==
    \A i \in DOMAIN rawLog :
        rawLog[i].outcome = "ok"
           => /\ Cardinality(FramesOf(BusSrc(rawLog[i].msg))) = 1
              /\ Cardinality(EventsOf(BusSrc(rawLog[i].msg))) = 1

\* a record marked failed with a frame and an event is the record of a
\* message whose ok write threw
C37_FailedWithFrameOnlyAfterOkWriteThrew ==
    \A i \in DOMAIN rawLog :
        ( /\ rawLog[i].outcome = "failed"
          /\ FramesOf(BusSrc(rawLog[i].msg)) \cup EventsOf(BusSrc(rawLog[i].msg)) # {} )
        => /\ bus[rawLog[i].msg].err = "saveRaw failed"
           /\ Count(bus[rawLog[i].msg].trace, "broadcast") = 1

----------------------------------------------------------------------------
\* the replies that tell of a failing Store call, not of the raw record
StoreFailures == {"getRawById failed", "saveFrame failed"}

\* request r, with an empty patch, for a raw record marked ok, was answered
\* and the Store calls it made returned
ReprocessedOk(r) ==
    /\ admin[r].pc = "replied" /\ admin[r].patch = "none"
    /\ admin[r].rawId \in DOMAIN rawLog
    /\ rawLog[admin[r].rawId].outcome = "ok"
    /\ admin[r].error \notin StoreFailures

\* C38: reprocessing, with an empty patch, the raw record of a bus message
\* that was ingested with outcome ok succeeds and stores a frame, also when
\* the payload carried a token and its camera info came from the provider.
C38_ReprocessOfOkSucceeds ==
    \A r \in DOMAIN admin :
        ReprocessedOk(r) => admin[r].code = 200 /\ Cardinality(FramesOf(AdminSrc(r))) = 1

\* the part of C38 that holds: it succeeds when the payload itself carries
\* the camera info
C38_ReprocessOfEmbeddedSucceeds ==
    \A r \in DOMAIN admin :
        (ReprocessedOk(r) /\ HasEmbeddedInfo(JSONparse(rawLog[admin[r].rawId].payload).doc))
        => admin[r].code = 200 /\ Cardinality(FramesOf(AdminSrc(r))) = 1

\* and it is refused by the schema when the payload carries a token
C38_ReprocessOfTokenRefused ==
    \A r \in DOMAIN admin :
        (ReprocessedOk(r) /\ ~HasEmbeddedInfo(JSONparse(rawLog[admin[r].rawId].payload).doc))
        => /\ admin[r].code = 400 /\ admin[r].error = "ZodError"
           /\ FramesOf(AdminSrc(r)) = {}
           /\ Cardinality(FramesOf(BusSrc(rawLog[admin[r].rawId].msg))) = 1

----------------------------------------------------------------------------
\* the broadcast calls during which v and w were both registered
Common(v, w) ==
    {n \in DOMAIN broadcasts : v \in broadcasts[n].members /\ w \in broadcasts[n].members}

\* the broadcast calls during which v and w were both registered with an
\* open socket
CommonOpen(v, w) ==
    {n \in DOMAIN broadcasts : v \in broadcasts[n].open /\ w \in broadcasts[n].open}

\* what w received of the calls in S, in the order it received them
ReceivedOf(w, S) == SelectSeq(received[w], LAMBDA n : n \in S)

Increasing(seq) == \A i, j \in DOMAIN seq : i < j => seq[i] < seq[j]

\* C39: two viewers that stay registered across a sequence of broadcasts
\* receive the same events in the same order, the order of the calls: of
\* the calls made while both were registered each has received every one,
\* earlier calls first.
C39_SameEventsSameOrder ==
    \A v, w \in Viewers :
        /\ ReceivedOf(v, Common(v, w)) = ReceivedOf(w, Common(v, w))
        /\ Len(ReceivedOf(v, Common(v, w))) = Cardinality(Common(v, w))
        /\ Increasing(received[v])

\* C39 for viewers whose sockets were open at every call: it fails as well,
\* by a send that threw
C39_OpenViewersSameEvents ==
    \A v, w \in Viewers :
        ReceivedOf(v, CommonOpen(v, w)) = ReceivedOf(w, CommonOpen(v, w))

\* the part of C39 that holds: every viewer receives events in the order of
\* the calls, each at most once, so no two viewers see two events in
\* opposite orders; and two viewers that were open at a call and whose
\* sends did not throw have both received it
C39_SameOrder ==
    \A v, w \in Viewers :
        /\ Increasing(received[v])
        /\ \A n \in CommonOpen(v, w) :
              (<<v, n>> \notin failedSends /\ <<w, n>> \notin failedSends)
              => Count(received[v], n) = 1 /\ Count(received[w], n) = 1

----------------------------------------------------------------------------
\* the credentials at hand: the string token_id of the bus payloads so far
\* and the CAMERA_TOKEN of the environment
Credentials ==
    ({JSONparse(bus[m].text).doc.token_id.s : m \in DOMAIN bus} \cup {CAMERA_TOKEN}) \ {""}

\* a camera_info none of whose fields is a credential
InfoClean(info) == \A k \in DOMAIN info : info[k].s \notin Credentials

\* a frame as the schema returns it, or the event made of it: token_id
\* holds the camera_info and nothing else, and no identifier of the frame
\* or of its objects is a credential
MetaClean(meta) ==
    /\ DOMAIN meta.token_id = {"camera_info"}
    /\ InfoClean(meta.token_id.camera_info)
    /\ meta.fram_id \notin Credentials /\ meta.cam_id \notin Credentials
    /\ \A i \in DOMAIN meta.objects : meta.objects[i].obj_id \notin Credentials

\* a row of the Store
RowClean(data) ==
    /\ data.framId \notin Credentials /\ data.camId \notin Credentials
    /\ data.cameraName.s \notin Credentials /\ data.cameraSort.s \notin Credentials
    /\ data.cameraLocation.s \notin Credentials
    /\ data.cameraInstitute.s \notin Credentials
    /\ \A i \in DOMAIN data.objects : data.objects[i].objId \notin Credentials

\* C40: a credential goes to the metadata provider and nowhere else.  No
\* event broadcast to the viewers and no persisted frame holds the string
\* token_id of a bus payload or the CAMERA_TOKEN; a device's event is made
\* of the validated metadata, the provider's camera info and the image,
\* with no field for the token of its connection.
C40_NoCredentialInEventOrFrame ==
    /\ \A e \in DOMAIN broadcasts :
          LET p == broadcasts[e].payload IN
          IF broadcasts[e].src.path = "bus" THEN MetaClean(p)
          ELSE /\ DOMAIN p = {"kind", "meta", "image_jpeg_base64"}
               /\ p.meta.token_id \in {<<>>, <<PiCameraInfo>>}
               /\ \A i \in DOMAIN p.meta.token_id : InfoClean(p.meta.token_id[i])
               /\ \A i \in DOMAIN p.meta.spread : MetaClean(p.meta.spread[i])
    /\ \A j \in DOMAIN frames : RowClean(frames[j].data)

\* a payload with a string token_id was enriched, persisted and broadcast;
\* a device that connected with a token had a frame enriched and broadcast
C40_Witness ==
    /\ \E m \in DOMAIN bus :
          /\ JSONparse(bus[m].text).doc.token_id.kind = "string"
          /\ JSONparse(bus[m].text).doc.token_id.s \in Credentials
          /\ Count(bus[m].trace, "enriched") = 1
          /\ FramesOf(BusSrc(m)) # {} /\ EventsOf(BusSrc(m)) # {}
    /\ \E h \in DOMAIN piHandlers :
          /\ pi[piHandlers[h].dev].creds
          /\ piHandlers[h].out = "frame"
          /\ \E e \in EventsOf(PiSrc(h)) :
                broadcasts[e].payload.meta.token_id = <<PiCameraInfo>>

====
